---- MODULE Spec2Model ----
(***************************************************************************)
(* A model of the CryptoMiniSat Solver class (src/cmsat/Solver.cpp): the   *)
(* clause database with its implicit (binary/ternary) watchers and         *)
(* counters, clause addition, learnt clause reduction, implicit            *)
(* subsumption and strengthening, the solve loop, variable renumbering     *)
(* and the DIMACS dumps.                                                   *)
(***************************************************************************)
EXTENDS Integers, Sequences, FiniteSets, TLC

\* ------------------------------------------------------------------------
\* Bounds of the model
\* ------------------------------------------------------------------------
MaxVars == 4
MaxDbSize == 3
MaxRenumber == 2

\* ------------------------------------------------------------------------
\* Configuration (SolverConf)
\* ------------------------------------------------------------------------
Configurations ==
    { [clauseCleaningType |-> t,
       ratioRemoveClauses |-> <<1, 2>>,
       doPreClauseCleanPropAndConfl |-> FALSE,
       preClauseCleanLimit |-> 1,
       preCleanMinConflTime |-> 0,
       doFindAndReplaceEqLits |-> TRUE,
       doProbe |-> TRUE,
       doClausVivif |-> TRUE,
       doSatELite |-> TRUE,
       doSortWatched |-> TRUE,
       doRenumberVars |-> FALSE,
       doClearStatEveryClauseCleaning |-> TRUE] : t \in {"glue"} }

\* ------------------------------------------------------------------------
\* Literals: Lit::toInt() = 2*var + sign
\* ------------------------------------------------------------------------
lit_Undef == -2

LitVar(l) == l \div 2

LitSign(l) == l % 2

\* operator~ of Lit: flips the sign bit
Neg(l) == IF l % 2 = 0 THEN l + 1 ELSE l - 1

MkLit(v, sign) == 2 * v + (IF sign THEN 1 ELSE 0)

\* Lit ^ bool
XorSign(l, b) == IF b THEN Neg(l) ELSE l

\* DIMACS text of a literal, as operator<< of Lit prints it
Dimacs(l) == IF l % 2 = 1 THEN 0 - (l \div 2 + 1) ELSE (l \div 2 + 1)

\* ------------------------------------------------------------------------
\* Sequence helpers
\* ------------------------------------------------------------------------
RECURSIVE InsertSorted(_, _)
InsertSorted(s, x) ==
    IF s = <<>> THEN <<x>>
    ELSE IF x < Head(s) THEN <<x>> \o s
    ELSE <<Head(s)>> \o InsertSorted(Tail(s), x)

\* std::sort on a vector of literals (ascending toInt)
RECURSIVE SortLits(_)
SortLits(s) == IF s = <<>> THEN <<>> ELSE InsertSorted(SortLits(Tail(s)), Head(s))

RECURSIVE SumSizes(_, _)
SumSizes(arena, offs) ==
    IF offs = <<>> THEN 0
    ELSE Len(arena[Head(offs)].lits) + SumSizes(arena, Tail(offs))

SeqToSet(s) == {s[i] : i \in 1..Len(s)}

RECURSIVE RemoveFirst(_, _)
RemoveFirst(s, x) ==
    IF s = <<>> THEN <<>>
    ELSE IF Head(s) = x THEN Tail(s)
    ELSE <<Head(s)>> \o RemoveFirst(Tail(s), x)

\* ------------------------------------------------------------------------
\* State of the solver
\* ------------------------------------------------------------------------
VARIABLES
    ok,                 \* PropEngine::ok
    nVars,              \* decisionVar.size()
    assigns,            \* value of every variable: "T", "F" or "U"
    trail,              \* the level-0 trail
    watches,            \* watches[lit]: sequence of watchers
    clAllocator,        \* the arena: offset -> clause
    longIrredCls,       \* offsets of the irredundant long clauses
    longRedCls,         \* offsets of the learnt long clauses
    irredLits, redLits, irredBins, redBins, irredTris, redTris,
    outerToInterMain, interToOuterMain,
    replaceTable,       \* varReplacer->getReplaceTable()
    blockedClauses,     \* simplifier->getBlockedClauses()
    conf,               \* SolverConf
    needToInterrupt,
    numSimplify,        \* solveStats.numSimplify
    numConflicts,       \* sumStats.conflStats.numConflicts
    simplified,         \* simplifyProblem ran in the current solve call
    searched,           \* Searcher::solve ran in the current solve call
    numRenumber,        \* number of renumberVariables calls made
    pc,                 \* position inside Solver::solve
    status,             \* local variable status of Solver::solve
    lastCall,           \* the last public operation that returned
    lastRet,            \* and what it returned
    os,                 \* the output stream of the last dump
    dumpMaxSize,        \* the maxSize of the last dumpLearnts call
    assumptions,        \* Solver::assumptions
    solveArg,           \* the argument _assumptions of the running solve call
    searchAssumptions,  \* what the running solve call last passed to Searcher::solve
    probing,            \* what failed-literal probing uses of the solver
    searcher            \* the fields of FailedVarSearcher that outlive a call

dbVars == <<ok, assigns, trail, watches, clAllocator, longIrredCls, longRedCls,
            irredLits, redLits, irredBins, redBins, irredTris, redTris>>

mapVars == <<nVars, outerToInterMain, interToOuterMain, numRenumber>>

auxVars == <<replaceTable, blockedClauses, conf>>

solveVars == <<needToInterrupt, numSimplify, numConflicts, simplified, searched, pc, status>>

osVars == <<os, dumpMaxSize>>

assumeVars == <<assumptions, solveArg, searchAssumptions>>

probeVars == <<probing, searcher>>

vars == <<dbVars, mapVars, auxVars, solveVars, lastCall, lastRet, osVars, assumeVars,
          probeVars>>

\* solve(NULL)
NoArgument == [given |-> FALSE, lits |-> << >>]

\* The solver before any variable: no decision level, empty heuristics
NoProbing == [lim |-> << >>, polarity |-> << >>, activity |-> << >>, var_inc |-> 1,
              order_heap |-> << >>, propagations |-> 0, removedLearnts |-> << >>,
              addExtraBins |-> FALSE, readdOldLearnts |-> FALSE]

\* FailedVarSearcher::FailedVarSearcher; numPropsMultiplier in tenths.
\* origTrailSize is written by search before it is read, except after a
\* failed readdRemovedLearnts, which leaves ok false. probed is a history
\* of the last call: the variables it probed, in order.
NewSearcher == [finishedLastTimeVar |-> TRUE, lastTimeWentUntilVar |-> 0,
                numPropsMultiplier |-> 10, lastTimeFoundTruths |-> 0, numCalls |-> 0,
                origTrailSize |-> 0, probed |-> << >>]

\* The database part of the state as one record, so that the helpers of the
\* solver can be composed as functions from state to state.
Cur == [ok |-> ok, assigns |-> assigns, trail |-> trail, watches |-> watches,
        arena |-> clAllocator, longIrredCls |-> longIrredCls,
        longRedCls |-> longRedCls, irredLits |-> irredLits, redLits |-> redLits,
        irredBins |-> irredBins, redBins |-> redBins, irredTris |-> irredTris,
        redTris |-> redTris, confl |-> FALSE, ret |-> -1]

Install(S) ==
    /\ ok' = S.ok
    /\ assigns' = S.assigns
    /\ trail' = S.trail
    /\ watches' = S.watches
    /\ clAllocator' = S.arena
    /\ longIrredCls' = S.longIrredCls
    /\ longRedCls' = S.longRedCls
    /\ irredLits' = S.irredLits
    /\ redLits' = S.redLits
    /\ irredBins' = S.irredBins
    /\ redBins' = S.redBins
    /\ irredTris' = S.irredTris
    /\ redTris' = S.redTris

\* ------------------------------------------------------------------------
\* Watchers
\* ------------------------------------------------------------------------
WBin(l1, learnt) == [t |-> "bin", lit1 |-> l1, lit2 |-> lit_Undef, learnt |-> learnt, off |-> 0]

WTri(l1, l2, learnt) == [t |-> "tri", lit1 |-> l1, lit2 |-> l2, learnt |-> learnt, off |-> 0]

WClause(off, blocker) == [t |-> "cl", lit1 |-> blocker, lit2 |-> lit_Undef, learnt |-> FALSE, off |-> off]

\* lbool value(Lit)
Value(S, l) ==
    LET a == S.assigns[LitVar(l)] IN
    IF a = "U" THEN "U"
    ELSE IF (a = "T") = (LitSign(l) = 0) THEN "T" ELSE "F"

\* PropEngine::enqueue at decision level 0
enqueue(S, l) ==
    [S EXCEPT !.assigns = [S.assigns EXCEPT ![LitVar(l)] = IF LitSign(l) = 0 THEN "T" ELSE "F"],
              !.trail = Append(S.trail, l)]

PushWatch(W, l, w) == [W EXCEPT ![l] = Append(W[l], w)]

\* PropEngine::attachBinClause: one watcher in the list of each literal
PropAttachBin(S, l1, l2, learnt) ==
    [S EXCEPT !.watches = PushWatch(PushWatch(S.watches, l1, WBin(l2, learnt)),
                                    l2, WBin(l1, learnt))]

\* PropEngine::attachTriClause: lits sorted, one watcher per literal, each
\* holding its two partners in ascending order
PropAttachTri(S, l1, l2, l3, learnt) ==
    LET s == SortLits(<<l1, l2, l3>>) IN
    [S EXCEPT !.watches =
        PushWatch(PushWatch(PushWatch(S.watches,
            s[1], WTri(s[2], s[3], learnt)),
            s[2], WTri(s[1], s[3], learnt)),
            s[3], WTri(s[1], s[2], learnt))]

\* PropEngine::attachClause: the first two literals are watched
PropAttachClause(S, off) ==
    LET c == S.arena[off].lits IN
    [S EXCEPT !.watches = PushWatch(PushWatch(S.watches, c[1], WClause(off, c[3])),
                                    c[2], WClause(off, c[3]))]

\* removeWBin / removeWTri / removeWCl: remove the first matching watcher
removeW(W, l, w) == [W EXCEPT ![l] = RemoveFirst(W[l], w)]

RECURSIVE RemoveFirstClause(_, _)
RemoveFirstClause(s, off) ==
    IF s = <<>> THEN <<>>
    ELSE IF Head(s).t = "cl" /\ Head(s).off = off THEN Tail(s)
    ELSE <<Head(s)>> \o RemoveFirstClause(Tail(s), off)

\* PropEngine::detachModifiedClause
PropDetachClause(S, l1, l2, off) ==
    [S EXCEPT !.watches = [S.watches EXCEPT ![l1] = RemoveFirstClause(S.watches[l1], off),
                                            ![l2] = RemoveFirstClause(S.watches[l2], off)]]

\* ------------------------------------------------------------------------
\* Unit propagation at decision level 0 (PropEngine::propagate)
\* ------------------------------------------------------------------------
\* One watcher of the literal that just became false
PropWatcher(S, w) ==
    IF w.t = "bin" THEN
        IF Value(S, w.lit1) = "T" THEN S
        ELSE IF Value(S, w.lit1) = "U" THEN enqueue(S, w.lit1)
        ELSE [S EXCEPT !.confl = TRUE]
    ELSE IF w.t = "tri" THEN
        IF Value(S, w.lit1) = "T" \/ Value(S, w.lit2) = "T" THEN S
        ELSE IF Value(S, w.lit1) = "F" /\ Value(S, w.lit2) = "F" THEN [S EXCEPT !.confl = TRUE]
        ELSE IF Value(S, w.lit1) = "F" THEN enqueue(S, w.lit2)
        ELSE IF Value(S, w.lit2) = "F" THEN enqueue(S, w.lit1)
        ELSE S
    ELSE S

RECURSIVE PropWatchers(_, _, _)
PropWatchers(S, ws, i) ==
    IF S.confl \/ i > Len(ws) THEN S
    ELSE PropWatchers(PropWatcher(S, ws[i]), ws, i + 1)

\* A long clause is attached when its first literal's list holds its watcher
IsAttached(S, off) ==
    LET ws == S.watches[S.arena[off].lits[1]] IN
    \E i \in 1..Len(ws) : ws[i].t = "cl" /\ ws[i].off = off

\* A long clause after one of its literals became false
PropLong(S, off) ==
    LET c == S.arena[off].lits
        undef == {i \in 1..Len(c) : Value(S, c[i]) = "U"}
    IN  IF \E i \in 1..Len(c) : Value(S, c[i]) = "T" THEN S
        ELSE IF undef = {} THEN [S EXCEPT !.confl = TRUE]
        ELSE IF Cardinality(undef) = 1 THEN enqueue(S, c[CHOOSE i \in undef : TRUE])
        ELSE S

RECURSIVE PropLongs(_, _, _, _)
PropLongs(S, p, offs, i) ==
    IF S.confl \/ i > Len(offs) THEN S
    ELSE PropLongs(IF IsAttached(S, offs[i]) /\ Neg(p) \in SeqToSet(S.arena[offs[i]].lits)
                   THEN PropLong(S, offs[i]) ELSE S,
                   p, offs, i + 1)

RECURSIVE PropagateFrom(_, _)
PropagateFrom(S, qhead) ==
    IF S.confl \/ qhead > Len(S.trail) THEN S
    ELSE PropagateFrom(PropLongs(PropWatchers(S, S.watches[Neg(S.trail[qhead])], 1),
                                 S.trail[qhead], S.longIrredCls \o S.longRedCls, 1),
                       qhead + 1)

\* ok = propagate().isNULL(), with the literals from trail[qhead] on pending
PropagateEnd(R) == [R EXCEPT !.ok = ~R.confl, !.confl = FALSE]

propagate(S, qhead) == PropagateEnd(PropagateFrom(S, qhead))

\* ------------------------------------------------------------------------
\* Solver::attach* / detach*: the counters, then the PropEngine work
\* ------------------------------------------------------------------------
attachClause(S, off) ==
    LET c == S.arena[off]
        S1 == IF c.learnt THEN [S EXCEPT !.redLits = @ + Len(c.lits)]
              ELSE [S EXCEPT !.irredLits = @ + Len(c.lits)]
    IN  PropAttachClause(S1, off)

attachTriClause(S, l1, l2, l3, learnt) ==
    LET S1 == IF learnt THEN [S EXCEPT !.redLits = @ + 3, !.redTris = @ + 1]
              ELSE [S EXCEPT !.irredLits = @ + 3, !.irredTris = @ + 1]
    IN  PropAttachTri(S1, l1, l2, l3, learnt)

attachBinClause(S, l1, l2, learnt) ==
    LET S1 == IF learnt THEN [S EXCEPT !.redLits = @ + 2, !.redBins = @ + 1]
              ELSE [S EXCEPT !.irredLits = @ + 2, !.irredBins = @ + 1]
    IN  PropAttachBin(S1, l1, l2, learnt)

detachModifiedClause(S, l1, l2, origSize, off) ==
    LET S1 == IF S.arena[off].learnt THEN [S EXCEPT !.redLits = @ - origSize]
              ELSE [S EXCEPT !.irredLits = @ - origSize]
    IN  PropDetachClause(S1, l1, l2, off)

detachClause(S, off) ==
    LET c == S.arena[off].lits IN detachModifiedClause(S, c[1], c[2], Len(c), off)

\* ClauseAllocator::Clause_new followed by makeLearnt and the stats copy
NewClause(ps, learnt, stats) ==
    [lits |-> ps, learnt |-> learnt, glue |-> stats.glue,
     propConfl |-> stats.propConfl, introduced |-> stats.introduced,
     freed |-> FALSE]

NoStats == [glue |-> 0, propConfl |-> 0, introduced |-> 0]

\* ------------------------------------------------------------------------
\* Solver::addClauseInt
\* ------------------------------------------------------------------------
\* The loop that keeps duplicated literals
RECURSIVE addClauseIntLoop_KeepDups(_, _, _, _, _)
addClauseIntLoop_KeepDups(S, ps, i, p, kept) ==
    IF i > Len(ps) THEN [null |-> FALSE, ps |-> kept]
    ELSE IF Value(S, ps[i]) = "T" \/ ps[i] = Neg(p) THEN [null |-> TRUE, ps |-> <<>>]
    ELSE LET keep == Value(S, ps[i]) # "F" IN
         addClauseIntLoop_KeepDups(S, ps, i + 1, IF keep THEN ps[i] ELSE p,
                                   IF keep THEN Append(kept, ps[i]) ELSE kept)

\* The normalising loop over the sorted literals: p is the last literal kept
RECURSIVE addClauseIntLoop(_, _, _, _, _)
addClauseIntLoop(S, ps, i, p, kept) ==
    IF i > Len(ps) THEN [null |-> FALSE, ps |-> kept]
    ELSE IF Value(S, ps[i]) = "T" \/ ps[i] = Neg(p) THEN [null |-> TRUE, ps |-> <<>>]
    ELSE LET keep == Value(S, ps[i]) # "F" /\ ps[i] # p IN
         addClauseIntLoop(S, ps, i + 1, IF keep THEN ps[i] ELSE p,
                          IF keep THEN Append(kept, ps[i]) ELSE kept)

\* The return value of addClauseInt: the offset of the clause, -1 for NULL
Returning(S, ret) == [S EXCEPT !.ret = ret]

\* Lines 209-215: the unit is enqueued and, when attaching, propagated
addClauseIntUnit(S, l, attach) ==
    IF attach THEN propagate(enqueue(S, l), Len(S.trail) + 1) ELSE enqueue(S, l)

\* Lines 224-240: the clause is allocated at the end of the arena, then
\* attached or only counted
addClauseIntLong(S, ps, learnt, stats, attach) ==
    IF attach THEN attachClause(S, Len(S.arena))
    ELSE IF learnt THEN [S EXCEPT !.redLits = @ + Len(ps)]
    ELSE [S EXCEPT !.irredLits = @ + Len(ps)]

\* The switch that returns NULL for the empty clause and leaves ok alone
addClauseIntSwitch_EmptyIgnored(S, r, learnt, stats, attach) ==
    IF r.null \/ Len(r.ps) = 0 THEN Returning(S, -1)
    ELSE IF Len(r.ps) = 1 THEN Returning(addClauseIntUnit(S, r.ps[1], attach), -1)
    ELSE IF Len(r.ps) = 2 THEN Returning(attachBinClause(S, r.ps[1], r.ps[2], learnt), -1)
    ELSE IF Len(r.ps) = 3
        THEN Returning(attachTriClause(S, r.ps[1], r.ps[2], r.ps[3], learnt), -1)
    ELSE Returning(addClauseIntLong(
                       [S EXCEPT !.arena = Append(S.arena, NewClause(r.ps, learnt, stats))],
                       r.ps, learnt, stats, attach),
                   Len(S.arena) + 1)

\* Lines 178-179 and 204-241: r.null is the early return of the loop, r.ps
\* the literals it kept
addClauseIntSwitch(S, r, learnt, stats, attach) ==
    IF r.null THEN Returning(S, -1)
    ELSE IF Len(r.ps) = 0 THEN Returning([S EXCEPT !.ok = FALSE], -1)
    ELSE IF Len(r.ps) = 1 THEN Returning(addClauseIntUnit(S, r.ps[1], attach), -1)
    ELSE IF Len(r.ps) = 2 THEN Returning(attachBinClause(S, r.ps[1], r.ps[2], learnt), -1)
    ELSE IF Len(r.ps) = 3
        THEN Returning(attachTriClause(S, r.ps[1], r.ps[2], r.ps[3], learnt), -1)
    ELSE Returning(addClauseIntLong(
                       [S EXCEPT !.arena = Append(S.arena, NewClause(r.ps, learnt, stats))],
                       r.ps, learnt, stats, attach),
                   Len(S.arena) + 1)

addClauseInt(S, lits, learnt, stats, attach) ==
    addClauseIntSwitch(S, addClauseIntLoop(S, SortLits(lits), 1, lit_Undef, <<>>),
                       learnt, stats, attach)

\* ------------------------------------------------------------------------
\* Solver::addClauseHelper, addClause, addLearntClause
\* ------------------------------------------------------------------------
\* The literals after the replace-table update; the random shuffle that
\* follows is undone by the sort in addClauseInt
addClauseHelper(table, ps) ==
    [i \in 1..Len(ps) |-> XorSign(table[LitVar(ps[i])], LitSign(ps[i]) = 1)]

\* Lines 408-411: the clause addClauseInt returned goes to longIrredCls
PushLongIrred(S) ==
    IF S.ret # -1 THEN [S EXCEPT !.longIrredCls = Append(@, S.ret)] ELSE S

\* Lines 428-431: the clause addClauseInt returned goes to longRedCls
PushLongRed(S) ==
    IF S.ret # -1 THEN [S EXCEPT !.longRedCls = Append(@, S.ret)] ELSE S

\* addClause without the early return on !ok
addClause_NoOkCheck(S, table, lits) ==
    PushLongIrred(addClauseInt(S, addClauseHelper(table, lits), FALSE, NoStats, TRUE))

addClause(S, table, lits) ==
    IF ~S.ok THEN S
    ELSE PushLongIrred(addClauseInt(S, addClauseHelper(table, lits), FALSE, NoStats, TRUE))

addLearntClause(S, table, lits, stats) ==
    IF ~S.ok THEN S
    ELSE PushLongRed(addClauseInt(S, addClauseHelper(table, lits), TRUE, stats, TRUE))


\* ------------------------------------------------------------------------
\* Solver::subsumeAndStrengthenImplicit
\* ------------------------------------------------------------------------
\* WatchSorter: binaries, then ternaries, then long clauses; implicit
\* watchers by their other literals, irredundant before learnt
WatchLess(a, b) ==
    IF a.t = "cl" THEN FALSE
    ELSE IF b.t = "cl" THEN TRUE
    ELSE IF a.t # b.t THEN a.t = "bin"
    ELSE IF a.lit1 # b.lit1 THEN a.lit1 < b.lit1
    ELSE IF a.lit2 # b.lit2 THEN a.lit2 < b.lit2
    ELSE (~a.learnt) /\ b.learnt

RECURSIVE InsertWatch(_, _)
InsertWatch(s, w) ==
    IF s = <<>> THEN <<w>>
    ELSE IF WatchLess(w, Head(s)) THEN <<w>> \o s
    ELSE <<Head(s)>> \o InsertWatch(Tail(s), w)

\* std::sort(ws.begin(), ws.end(), WatchSorter())
RECURSIVE SortWatches(_, _)
SortWatches(ws, n) ==
    IF n = 0 THEN <<>> ELSE InsertWatch(SortWatches(ws, n - 1), ws[n])

\* The demotion that forgets the second watcher of the binary
SetLearntFalse_Forgotten(ws, partner) == ws

\* findWatchedOfBin(watches, l, partner, true).setLearnt(false)
RECURSIVE SetLearntFalse(_, _)
SetLearntFalse(ws, partner) ==
    IF ws = <<>> THEN <<>>
    ELSE IF Head(ws).t = "bin" /\ Head(ws).lit1 = partner /\ Head(ws).learnt
         THEN <<[Head(ws) EXCEPT !.learnt = FALSE]>> \o Tail(ws)
         ELSE <<Head(ws)>> \o SetLearntFalse(Tail(ws), partner)

\* The counters after an implicit clause of the given size is removed
CountRemoved(S, size, learnt) ==
    IF size = 2 THEN
        IF learnt THEN [S EXCEPT !.redLits = @ - 2, !.redBins = @ - 1]
        ELSE [S EXCEPT !.irredLits = @ - 2, !.irredBins = @ - 1]
    ELSE
        IF learnt THEN [S EXCEPT !.redLits = @ - 3, !.redTris = @ - 1]
        ELSE [S EXCEPT !.irredLits = @ - 3, !.irredTris = @ - 1]

\* The local variables of the subsumption sweep over one watch list
SweepStart == [out |-> <<>>, lastBin |-> 0, lastLit |-> lit_Undef,
               lastLit2 |-> lit_Undef, lastLearnt |-> FALSE]

\* The sweep that keeps a binary that repeats the last one
SubsumeBinWithBin_Kept(R, lit, w) == [R EXCEPT !.L.out = Append(@, w)]

\* Lines 2425-2439: the binary w of the list of lit repeats the last one; it
\* is dropped from this list and removeWBin takes its other watcher away
SubsumeBinWithBin(R, lit, w) ==
    [R EXCEPT !.S = CountRemoved(
                        [R.S EXCEPT !.watches = removeW(@, w.lit1, WBin(lit, w.learnt))],
                        2, w.learnt),
              !.remBins = @ + 1]

\* One watcher of the subsumption sweep (lines 2344-2451). R.S is the solver,
\* R.L the locals; out is the part of ws kept so far (the pointer j).
SubsumeStep(R, lit, w) ==
    LET S == R.S
        L == R.L
        keep == [R EXCEPT !.L.out = Append(@, w)]
    IN
    IF w.t = "cl" THEN keep
    ELSE IF w.t = "tri" THEN
        IF lit > w.lit1 THEN keep
        ELSE IF L.lastLit # w.lit1 THEN
            [keep EXCEPT !.L.lastLit2 = w.lit2, !.L.lastLearnt = w.learnt]
        ELSE
            LET byBin == L.lastLit2 = lit_Undef /\ L.lastLit = w.lit1
                demote == byBin /\ L.lastLearnt /\ ~w.learnt
                byTri == L.lastLit = w.lit1 /\ L.lastLit2 = w.lit2
                S1 == IF demote THEN
                        [S EXCEPT !.watches[L.lastLit] = SetLearntFalse(@, lit),
                                  !.redLits = @ - 2, !.irredLits = @ + 2,
                                  !.redBins = @ - 1, !.irredBins = @ + 1]
                      ELSE S
                L1 == IF demote THEN
                        [L EXCEPT !.out[L.lastBin] = [@ EXCEPT !.learnt = FALSE],
                                  !.lastLearnt = FALSE]
                      ELSE L
                S2 == [S1 EXCEPT !.watches =
                        removeW(removeW(@, w.lit1, WTri(lit, w.lit2, w.learnt)),
                                w.lit2, WTri(lit, w.lit1, w.learnt))]
            IN  IF byBin \/ byTri THEN
                    [S |-> CountRemoved(S2, 3, w.learnt), L |-> L1,
                     remTris |-> R.remTris + 1, remBins |-> R.remBins]
                ELSE [R EXCEPT !.L.out = Append(@, w), !.L.lastLit = w.lit1,
                               !.L.lastLit2 = w.lit2, !.L.lastLearnt = w.learnt]
    ELSE
        IF w.lit1 = L.lastLit /\ L.lastLit2 = lit_Undef THEN
            SubsumeBinWithBin(R, lit, w)
        ELSE [R EXCEPT !.L = [out |-> Append(L.out, w), lastBin |-> Len(L.out) + 1,
                              lastLit |-> w.lit1, lastLit2 |-> lit_Undef,
                              lastLearnt |-> w.learnt]]

RECURSIVE SubsumeSweep(_, _, _, _)
SubsumeSweep(R, lit, ws, i) ==
    IF i > Len(ws) THEN R
    ELSE SubsumeSweep(SubsumeStep(R, lit, ws[i]), lit, ws, i + 1)

\* The search never finding its binary
HasInvertedBin_Never(ws, i) == FALSE

\* The search of lines 2480-2493 for a binary with the inverted partner,
\* from position i of the list on
HasInvertedBin(ws, i) ==
    \E k \in i..Len(ws) :
        /\ \A m \in i..k : ws[m].t \in {"bin", "tri"}
        /\ ws[k].t = "bin"
        /\ ws[k].lit1 = Neg(ws[i].lit1)

\* The search looking for the negations of the ternary's other literals
HasStrengtheningBin_Negated(S, lit, w) ==
    \E k \in 1..Len(S.watches[Neg(lit)]) :
        /\ S.watches[Neg(lit)][k].t = "bin"
        /\ S.watches[Neg(lit)][k].lit1 \in {Neg(w.lit1), Neg(w.lit2)}

\* The search of lines 2506-2522 in the list of ~lit
HasStrengtheningBin(S, lit, w) ==
    \E k \in 1..Len(S.watches[Neg(lit)]) :
        /\ S.watches[Neg(lit)][k].t = "bin"
        /\ S.watches[Neg(lit)][k].lit1 \in {w.lit1, w.lit2}

\* removeTriAllButOne: the copies in the lists of the two other literals
removeTriAllButOne(W, lit, w) ==
    removeW(removeW(W, w.lit1, WTri(IF lit < w.lit2 THEN lit ELSE w.lit2,
                                    IF lit < w.lit2 THEN w.lit2 ELSE lit, w.learnt)),
            w.lit2, WTri(IF lit < w.lit1 THEN lit ELSE w.lit1,
                         IF lit < w.lit1 THEN w.lit1 ELSE lit, w.learnt))

\* One watcher of the strengthening sweep (lines 2461-2556)
StrengthenStep(R, lit, ws, i) ==
    LET w == ws[i]
        keep == [R EXCEPT !.out = Append(@, w)]
    IN
    IF w.t = "cl" THEN keep
    ELSE IF w.t = "bin" THEN
        IF LitSign(w.lit1) = 1 THEN keep
        ELSE IF HasInvertedBin(ws, i)
             THEN [keep EXCEPT !.toEnqueue = Append(@, lit)]
             ELSE keep
    ELSE
        IF ~HasStrengtheningBin(R.S, lit, w) THEN keep
        ELSE [R EXCEPT !.S = CountRemoved(
                                [R.S EXCEPT !.watches = removeTriAllButOne(@, lit, w)],
                                3, w.learnt),
                       !.binsToAdd = Append(@, <<w.lit1, w.lit2, w.learnt>>)]

RECURSIVE StrengthenSweep(_, _, _, _)
StrengthenSweep(R, lit, ws, i) ==
    IF i > Len(ws) THEN R
    ELSE StrengthenSweep(StrengthenStep(R, lit, ws, i), lit, ws, i + 1)

\* Lines 2333-2456: the list of lit is sorted and swept for subsumption
ImplicitSubsume(R, lit) ==
    SubsumeSweep([S |-> R.S, L |-> SweepStart, remTris |-> 0, remBins |-> 0], lit,
                 SortWatches(R.S.watches[lit], Len(R.S.watches[lit])), 1)

\* Lines 2456-2557: the list is shrunk to what sweep A kept, then swept for
\* strengthening
ImplicitStrengthen(R, lit, A) ==
    StrengthenSweep([S |-> [A.S EXCEPT !.watches[lit] = A.L.out], out |-> <<>>,
                     toEnqueue |-> R.toEnqueue, binsToAdd |-> R.binsToAdd],
                    lit, A.L.out, 1)

\* Line 2557: the list is shrunk to what sweep B kept
ImplicitShrink(B, lit) ==
    [S |-> [B.S EXCEPT !.watches[lit] = B.out],
     toEnqueue |-> B.toEnqueue, binsToAdd |-> B.binsToAdd]

\* The body of the loop over the watch lists for one literal
ImplicitOneLit(R, lit) ==
    IF Len(R.S.watches[lit]) < 2 THEN R
    ELSE ImplicitShrink(ImplicitStrengthen(R, lit, ImplicitSubsume(R, lit)), lit)

RECURSIVE ImplicitAllLits(_, _, _)
ImplicitAllLits(R, lit, n) ==
    IF lit >= n THEN R ELSE ImplicitAllLits(ImplicitOneLit(R, lit), lit + 1, n)

\* Lines 2560-2573: the delayed enqueues; ret = 0 when one is already false
RECURSIVE EnqueueDelayed(_, _, _)
EnqueueDelayed(S, toEnqueue, i) ==
    IF i > Len(toEnqueue) THEN [S EXCEPT !.ret = 1]
    ELSE IF Value(S, toEnqueue[i]) = "F" THEN [S EXCEPT !.ok = FALSE, !.ret = 0]
    ELSE EnqueueDelayed(IF Value(S, toEnqueue[i]) = "U" THEN enqueue(S, toEnqueue[i]) ELSE S,
                        toEnqueue, i + 1)

\* Lines 2578-2589: the delayed binary clauses
RECURSIVE AddDelayedBins(_, _, _)
AddDelayedBins(S, binsToAdd, i) ==
    IF i > Len(binsToAdd) \/ ~S.ok THEN S
    ELSE AddDelayedBins(
            addClauseInt(S, <<binsToAdd[i][1], binsToAdd[i][2]>>, binsToAdd[i][3], NoStats, TRUE),
            binsToAdd, i + 1)

\* Lines 2574-2576: ok = propagate().isNULL(), unless line 2568 returned
ImplicitPropagate(E, qhead) == IF E.ret = 0 THEN E ELSE propagate(E, qhead)

\* Lines 2575-2589: return on !ok, else add the delayed binaries
ImplicitAddBins(P, binsToAdd) == IF ~P.ok THEN P ELSE AddDelayedBins(P, binsToAdd, 1)

\* Lines 2560-2589: what follows the loop over the watch lists
ImplicitDelayed(R) ==
    ImplicitAddBins(ImplicitPropagate(EnqueueDelayed(R.S, R.toEnqueue, 1),
                                      Len(R.S.trail) + 1),
                    R.binsToAdd)

subsumeAndStrengthenImplicit(S, n) ==
    ImplicitDelayed(ImplicitAllLits([S |-> S, toEnqueue |-> <<>>, binsToAdd |-> <<>>],
                                    0, 2 * n))


\* ------------------------------------------------------------------------
\* Inputs
\* ------------------------------------------------------------------------
\* The clauses handed to addClause and addLearntClause: units, binaries,
\* ternaries and long clauses over the variables 0..3, with duplicated
\* literals and tautologies among them
InputClauses ==
    { <<0>>, <<1>>, <<0, 0>>, <<2, 3>>,
      <<0, 2>>, <<0, 3>>, <<1, 2>>,
      <<0, 2, 4>>, <<4, 0, 2, 0>>,
      <<0, 2, 4, 6>>, <<7, 5, 3, 1>> }

InputStats == { [glue |-> 2, propConfl |-> 0, introduced |-> 0],
                [glue |-> 3, propConfl |-> 1, introduced |-> 0] }

\* The number of stored items, which the bound MaxDbSize caps
DbSize == Len(trail) + Len(clAllocator)
          + irredBins + redBins + irredTris + redTris

Declared(lits) == \A i \in 1..Len(lits) : LitVar(lits[i]) < nVars

\* ------------------------------------------------------------------------
\* Initial state: the solver after construction
\* ------------------------------------------------------------------------
Init ==
    /\ ok = TRUE
    /\ nVars = 0
    /\ assigns = << >>
    /\ trail = << >>
    /\ watches = << >>
    /\ clAllocator = << >>
    /\ longIrredCls = << >>
    /\ longRedCls = << >>
    /\ irredLits = 0 /\ redLits = 0
    /\ irredBins = 0 /\ redBins = 0
    /\ irredTris = 0 /\ redTris = 0
    /\ outerToInterMain = << >>
    /\ interToOuterMain = << >>
    /\ replaceTable = << >>
    /\ blockedClauses = << >>
    /\ conf \in Configurations
    /\ needToInterrupt = FALSE
    /\ numSimplify = 0
    /\ numConflicts = 0
    /\ simplified = FALSE
    /\ searched = FALSE
    /\ numRenumber = 0
    /\ pc = "idle"
    /\ status = "l_Undef"
    /\ lastCall = "none"
    /\ lastRet = "none"
    /\ os = << >>
    /\ dumpMaxSize = 0
    /\ assumptions = << >>
    /\ solveArg = NoArgument
    /\ searchAssumptions = << >>
    /\ probing = NoProbing
    /\ searcher = NewSearcher

\* ------------------------------------------------------------------------
\* Solver::newVar
\* ------------------------------------------------------------------------
\* The solver's own part of newVar
NewVarState(bound) ==
    /\ pc = "idle"
    /\ nVars < bound
    /\ nVars' = nVars + 1
    /\ outerToInterMain' = [v \in 0..nVars |-> IF v < nVars THEN outerToInterMain[v] ELSE nVars]
    /\ interToOuterMain' = [v \in 0..nVars |-> IF v < nVars THEN interToOuterMain[v] ELSE nVars]
    /\ assigns' = [v \in 0..nVars |-> IF v < nVars THEN assigns[v] ELSE "U"]
    /\ watches' = [l \in 0..(2 * nVars + 1) |-> IF l < 2 * nVars THEN watches[l] ELSE << >>]
    /\ replaceTable' = [v \in 0..nVars |-> IF v < nVars THEN replaceTable[v] ELSE MkLit(nVars, FALSE)]
    /\ lastCall' = "newVar"
    /\ lastRet' = ToString(nVars)
    /\ UNCHANGED <<ok, trail, clAllocator, longIrredCls, longRedCls,
                   irredLits, redLits, irredBins, redBins, irredTris, redTris,
                   numRenumber, blockedClauses, conf, solveVars, osVars, assumeVars>>

NewVarUpTo(bound) == NewVarState(bound) /\ UNCHANGED probeVars

NewVar == NewVarUpTo(MaxVars)

\* ------------------------------------------------------------------------
\* Solver::addClause and Solver::addLearntClause as public operations
\* ------------------------------------------------------------------------
AddClauseFrom(inputs, bound) ==
    /\ pc = "idle"
    /\ DbSize < bound
    /\ \E lits \in inputs :
        /\ Declared(lits)
        /\ \E S \in {addClause(Cur, replaceTable, lits)} :
            /\ Install(S)
            /\ lastRet' = ToString(S.ok)
    /\ lastCall' = "addClause"
    /\ UNCHANGED <<mapVars, auxVars, solveVars, osVars, assumeVars, probeVars>>

AddLearntClauseFrom(inputs, bound) ==
    /\ pc = "idle"
    /\ DbSize < bound
    /\ \E lits \in inputs, stats \in InputStats :
        /\ Declared(lits)
        /\ \E S \in {addLearntClause(Cur, replaceTable, lits, stats)} :
            /\ Install(S)
            /\ lastRet' = ToString(S.ok)
    /\ lastCall' = "addLearntClause"
    /\ UNCHANGED <<mapVars, auxVars, solveVars, osVars, assumeVars, probeVars>>

AddClause == AddClauseFrom(InputClauses, MaxDbSize)

AddLearntClause == AddLearntClauseFrom(InputClauses, MaxDbSize)

\* ------------------------------------------------------------------------
\* Solver::newClauseByThread
\* ------------------------------------------------------------------------
newClauseByThread(S, lits, glue, sumConflicts) ==
    IF Len(lits) <= 3 THEN [S EXCEPT !.ret = -1]
    ELSE LET off == Len(S.arena) + 1 IN
         [S EXCEPT !.arena = Append(@, NewClause(lits, TRUE,
                        [glue |-> glue, propConfl |-> 0, introduced |-> sumConflicts])),
                   !.longRedCls = Append(@, off),
                   !.ret = off]

ThreadClauses == { <<0, 2>>, <<0, 2, 4, 6>> }

NewClauseByThread ==
    /\ pc = "idle"
    /\ DbSize < MaxDbSize
    /\ \E lits \in ThreadClauses :
        /\ Declared(lits)
        /\ \E S \in {newClauseByThread(Cur, lits, 2, numConflicts)} :
            /\ Install(S)
            /\ lastRet' = ToString(S.ret)
    /\ lastCall' = "newClauseByThread"
    /\ UNCHANGED <<mapVars, auxVars, solveVars, osVars, assumeVars, probeVars>>

\* ------------------------------------------------------------------------
\* Solver::reduceDB
\* ------------------------------------------------------------------------
\* ClauseCleaner::removeAndCleanAll: keeps the database as it is
removeAndCleanAll(S) == S

\* The three comparators: TRUE when x is to be sorted before y
reduceDBStructGlue(x, y) ==
    IF x.glue > y.glue THEN TRUE
    ELSE IF x.glue < y.glue THEN FALSE
    ELSE Len(x.lits) > Len(y.lits)

reduceDBStructSize(x, y) ==
    IF Len(x.lits) > Len(y.lits) THEN TRUE
    ELSE IF Len(x.lits) < Len(y.lits) THEN FALSE
    ELSE x.glue > y.glue

\* The comparator without the reversal of the first tie
reduceDBStructPropConfl_NoReversal(x, y) ==
    IF x.propConfl > y.propConfl THEN TRUE
    ELSE IF x.propConfl < y.propConfl THEN FALSE
    ELSE Len(x.lits) > Len(y.lits)

reduceDBStructPropConfl(x, y) ==
    IF x.propConfl > y.propConfl THEN FALSE
    ELSE IF x.propConfl < y.propConfl THEN TRUE
    ELSE Len(x.lits) > Len(y.lits)

ReduceLess(type, x, y) ==
    IF type = "glue" THEN reduceDBStructGlue(x, y)
    ELSE IF type = "size" THEN reduceDBStructSize(x, y)
    ELSE reduceDBStructPropConfl(x, y)

\* The results std::sort may give: every arrangement of offs in which no
\* clause stands before one that the comparator puts first
SortedArrangements(arena, offs, type) ==
    { p \in [1..Len(offs) -> SeqToSet(offs)] :
        /\ \A o \in SeqToSet(offs) :
              Cardinality({i \in 1..Len(offs) : p[i] = o})
                = Cardinality({i \in 1..Len(offs) : offs[i] = o})
        /\ \A i, j \in 1..Len(offs) :
              i < j => ~ReduceLess(type, arena[p[j]], arena[p[i]]) }

\* Lines 769-801: the pre-clean loop
RECURSIVE preClean(_, _, _, _, _)
preClean(S, cf, confl, offs, kept) ==
    IF offs = <<>> THEN [S EXCEPT !.longRedCls = kept]
    ELSE LET off == Head(offs)
             cl == S.arena[off]
             remove == /\ cl.propConfl < cf.preClauseCleanLimit
                       /\ cl.introduced + cf.preCleanMinConflTime < confl
         IN  preClean(IF remove
                      THEN [detachClause(S, off) EXCEPT !.arena[off].freed = TRUE]
                      ELSE S,
                      cf, confl, Tail(offs), IF remove THEN kept ELSE Append(kept, off))

\* Lines 843-875: detach and free the first removeNum clauses, keep the rest
RECURSIVE removeNormally(_, _, _, _)
removeNormally(S, sorted, i, removeNum) ==
    IF i > Len(sorted) \/ i > removeNum
    THEN [S EXCEPT !.longRedCls = SubSeq(sorted, i, Len(sorted))]
    ELSE removeNormally([detachClause(S, sorted[i]) EXCEPT !.arena[sorted[i]].freed = TRUE],
                        sorted, i + 1, removeNum)

\* The state before the sort, and the number of clauses to remove
reduceDBStart(S, cf, confl) ==
    LET S0 == removeAndCleanAll(S)
        removeNum == (Len(S0.longRedCls) * cf.ratioRemoveClauses[1]) \div cf.ratioRemoveClauses[2]
        S1 == IF cf.doPreClauseCleanPropAndConfl
              THEN preClean(S0, cf, confl, S0.longRedCls, <<>>) ELSE S0
    IN  [S |-> S1, removeNum |-> removeNum]

\* The states reduceDB may end in
reduceDB(S, cf, confl) ==
    LET R == reduceDBStart(S, cf, confl) IN
    { removeNormally(R.S, sorted, 1, R.removeNum) :
        sorted \in SortedArrangements(R.S.arena, R.S.longRedCls, cf.clauseCleaningType) }

ReduceDB ==
    /\ pc = "idle"
    /\ \E S \in reduceDB(Cur, conf, numConflicts) : Install(S)
    /\ lastCall' = "reduceDB"
    /\ lastRet' = "none"
    /\ UNCHANGED <<mapVars, auxVars, solveVars, osVars, assumeVars, probeVars>>


\* ------------------------------------------------------------------------
\* Solver::simplifyProblem
\* ------------------------------------------------------------------------
\* The passes in the order of the code; INTERRUPT is the check of line 1018
SimplifyPasses == << "scc1", "replace1", "implicit1", "probe", "scc2", "replace2",
                     "INTERRUPT", "implicit2", "vivif1", "satelite", "vivif2",
                     "scc3", "replace3" >>

ExternalPasses == { "scc1", "replace1", "probe", "scc2", "replace2",
                    "vivif1", "satelite", "vivif2", "scc3", "replace3" }

\* Whether the configuration and numSimplify let the pass run
PassEnabled(cf, nSimp, p) ==
    IF p \in {"scc1", "replace1", "scc2", "replace2"}
        THEN nSimp > 0 /\ cf.doFindAndReplaceEqLits
    ELSE IF p = "probe" THEN cf.doProbe
    ELSE IF p \in {"vivif1", "vivif2"} THEN cf.doClausVivif
    ELSE IF p = "satelite" THEN cf.doSatELite
    ELSE IF p \in {"scc3", "replace3"} THEN cf.doFindAndReplaceEqLits
    ELSE TRUE

\* A pass of another class: it returns true, or returns false with ok unset
ExternalPass(S, fails) == IF fails THEN [S EXCEPT !.ok = FALSE] ELSE S

\* A pass has returned and the goto end is never taken
AfterPass_NoStop(R, p, S1) ==
    [R EXCEPT !.S = S1, !.stop = FALSE, !.ran = Append(@, p), !.rets = Append(@, S1.ok)]

\* A pass has returned solver S1: goto end when it returned false
AfterPass(R, p, S1) ==
    [R EXCEPT !.S = S1, !.stop = ~S1.ok, !.ran = Append(@, p), !.rets = Append(@, S1.ok)]

\* One pass, when the configuration lets it run
RunPass(R, cf, nSimp, n, interrupt, fail, p) ==
    IF ~PassEnabled(cf, nSimp, p) THEN R
    ELSE IF p = "INTERRUPT" THEN [R EXCEPT !.early = interrupt]
    ELSE AfterPass(R, p, IF p \in {"implicit1", "implicit2"}
                         THEN subsumeAndStrengthenImplicit(R.S, n)
                         ELSE ExternalPass(R.S, fail = p))

\* R.S the solver, R.stop: goto end was taken, R.early: returned at line 1018,
\* R.ran the passes that ran and R.rets what each of them returned
RECURSIVE RunPasses(_, _, _, _, _, _, _)
RunPasses(R, cf, nSimp, n, interrupt, fail, i) ==
    IF i > Len(SimplifyPasses) \/ R.stop \/ R.early THEN R
    ELSE RunPasses(RunPass(R, cf, nSimp, n, interrupt, fail, SimplifyPasses[i]),
                   cf, nSimp, n, interrupt, fail, i + 1)

\* Solver::sortWatched
sortWatched(S) ==
    [S EXCEPT !.watches = [l \in DOMAIN S.watches |->
                              SortWatches(S.watches[l], Len(S.watches[l]))]]

\* Solver::clearClauseStats on both clause lists
clearClauseStats(S) ==
    LET live == SeqToSet(S.longIrredCls) \cup SeqToSet(S.longRedCls) IN
    [S EXCEPT !.arena = [o \in DOMAIN S.arena |->
                            IF o \in live THEN [S.arena[o] EXCEPT !.propConfl = 0]
                            ELSE S.arena[o]]]

\* The database after simplifyProblem, without the renumbering: S the solver,
\* early: returned at line 1018, tail: the part after the last pass was
\* reached, ran: the passes that ran
simplifyEnd(R, cf) ==
    LET tail == ~R.stop /\ ~R.early
        S1 == IF tail /\ cf.doSortWatched THEN sortWatched(R.S) ELSE R.S
        S2 == IF ~R.early /\ cf.doClearStatEveryClauseCleaning
              THEN clearClauseStats(S1) ELSE S1
    IN  [S |-> S2, early |-> R.early, tail |-> tail, ran |-> R.ran, rets |-> R.rets,
         status |-> IF R.early THEN "l_Undef"
                    ELSE IF ~S2.ok THEN "l_False" ELSE "l_Undef"]

simplifyProblem(S, cf, nSimp, n, interrupt, fail) ==
    simplifyEnd(RunPasses([S |-> S, stop |-> FALSE, early |-> FALSE, ran |-> <<>>,
                           rets |-> <<>>],
                          cf, nSimp, n, interrupt, fail, 1),
                cf)


\* ------------------------------------------------------------------------
\* Solver::renumberVariables
\* ------------------------------------------------------------------------
\* updateArray(toUpdate, mapper): toUpdate[i] becomes the old toUpdate[mapper[i]]
updateArray(toUpdate, mapper) == [i \in DOMAIN toUpdate |-> toUpdate[mapper[i]]]

\* getUpdatedLit(lit, outerToInter)
getUpdatedLit(l, outerToInter) == 2 * outerToInter[LitVar(l)] + LitSign(l)

\* updateLitsMap(lits, outerToInter)
updateLitsMap(lits, outerToInter) ==
    [i \in 1..Len(lits) |-> getUpdatedLit(lits[i], outerToInter)]

\* The variables in ascending order that satisfy (want = TRUE) or do not
\* satisfy (want = FALSE) the test of lines 541-544
RECURSIVE VarsWhere(_, _, _, _)
VarsWhere(S, i, n, want) ==
    IF i >= n THEN <<>>
    ELSE (IF (S.assigns[i] # "U") = want THEN <<i>> ELSE << >>)
         \o VarsWhere(S, i + 1, n, want)

\* Lines 536-564: interToOuter, used variables first
MakeInterToOuter(S, n) ==
    LET order == VarsWhere(S, 0, n, FALSE) \o VarsWhere(S, 0, n, TRUE)
    IN  [at \in 0..(n - 1) |-> order[at + 1]]

MakeOuterToInter(interToOuter, n) ==
    [i \in 0..(n - 1) |-> CHOOSE at \in 0..(n - 1) : interToOuter[at] = i]

\* A watcher with its literals renumbered; the partners of a ternary stay
\* in ascending order
UpdateWatcher(w, outerToInter) ==
    IF w.t = "bin" THEN [w EXCEPT !.lit1 = getUpdatedLit(w.lit1, outerToInter)]
    ELSE IF w.t = "tri" THEN
        LET a == getUpdatedLit(w.lit1, outerToInter)
            b == getUpdatedLit(w.lit2, outerToInter)
        IN  [w EXCEPT !.lit1 = IF a < b THEN a ELSE b, !.lit2 = IF a < b THEN b ELSE a]
    ELSE [w EXCEPT !.lit1 = getUpdatedLit(w.lit1, outerToInter)]

\* PropEngine::updateVars: assignment, trail and watch lists
PropUpdateVars(S, outerToInter, interToOuter) ==
    [S EXCEPT
        !.assigns = updateArray(S.assigns, interToOuter),
        !.trail = updateLitsMap(S.trail, outerToInter),
        !.watches = [l \in DOMAIN S.watches |->
            LET old == S.watches[2 * interToOuter[LitVar(l)] + LitSign(l)]
            IN  [k \in 1..Len(old) |-> UpdateWatcher(old[k], outerToInter)]]]

\* G: the solver S together with the two maps and the collaborators' tables
renumberVariables(G, n) ==
    LET S0 == removeAndCleanAll(G.S)
        interToOuter == MakeInterToOuter(S0, n)
        outerToInter == MakeOuterToInter(interToOuter, n)
        S1 == PropUpdateVars(S0, outerToInter, interToOuter)
        live == SeqToSet(S1.longIrredCls) \cup SeqToSet(S1.longRedCls)
        S2 == [S1 EXCEPT !.arena = [o \in DOMAIN S1.arena |->
                    IF o \in live
                    THEN [S1.arena[o] EXCEPT !.lits = updateLitsMap(@, outerToInter)]
                    ELSE S1.arena[o]]]
    IN  [S |-> S2,
         interToOuterMain |-> updateArray(G.interToOuterMain, interToOuter),
         outerToInterMain |-> updateArray(G.outerToInterMain, outerToInter),
         assumptions |-> updateLitsMap(G.assumptions, outerToInter),
         replaceTable |-> [i \in DOMAIN G.replaceTable |->
                              getUpdatedLit(G.replaceTable[interToOuter[i]], outerToInter)],
         blockedClauses |-> [k \in 1..Len(G.blockedClauses) |->
                              [blockedOn |-> getUpdatedLit(G.blockedClauses[k].blockedOn, outerToInter),
                               lits |-> updateLitsMap(G.blockedClauses[k].lits, outerToInter)]]]

CurAll == [S |-> Cur, interToOuterMain |-> interToOuterMain,
           outerToInterMain |-> outerToInterMain, assumptions |-> assumptions,
           replaceTable |-> replaceTable, blockedClauses |-> blockedClauses]

InstallAll(G) ==
    /\ Install(G.S)
    /\ interToOuterMain' = G.interToOuterMain
    /\ outerToInterMain' = G.outerToInterMain
    /\ assumptions' = G.assumptions
    /\ replaceTable' = G.replaceTable
    /\ blockedClauses' = G.blockedClauses

RenumberVariables ==
    /\ pc = "idle"
    /\ ok
    /\ numRenumber < MaxRenumber
    /\ InstallAll(renumberVariables(CurAll, nVars))
    /\ numRenumber' = numRenumber + 1
    /\ lastCall' = "renumberVariables"
    /\ lastRet' = "none"
    /\ UNCHANGED <<nVars, conf, solveVars, osVars, solveArg, searchAssumptions, probeVars>>

\* ------------------------------------------------------------------------
\* Solver::solve, one action per stretch of the code
\* ------------------------------------------------------------------------
\* Solver::setNeedToInterrupt
SetNeedToInterrupt ==
    /\ pc # "idle"
    /\ ~needToInterrupt
    /\ needToInterrupt' = TRUE
    /\ UNCHANGED <<dbVars, mapVars, auxVars, numSimplify, numConflicts,
                   simplified, searched, pc, status, lastCall, lastRet, osVars, assumeVars, probeVars>>

\* The arguments given to solve: none, or the assumption x1
SolveArguments == { NoArgument, [given |-> TRUE, lits |-> <<0>>] }

\* Lines 888-906: entry, up to the first simplifyProblem
SolveBegin ==
    /\ pc = "idle"
    /\ \E arg \in SolveArguments :
        /\ Declared(arg.lits)
        /\ solveArg' = arg
        /\ assumptions' = IF arg.given THEN arg.lits ELSE assumptions
    /\ searchAssumptions' = << >>
    /\ status' = IF ok THEN "l_Undef" ELSE "l_False"
    /\ pc' = IF ok /\ nVars > 0 THEN "simplify" ELSE "loop"
    /\ simplified' = FALSE
    /\ searched' = FALSE
    /\ lastCall' = "solve"
    /\ lastRet' = "running"
    /\ UNCHANGED <<dbVars, mapVars, auxVars, needToInterrupt, numSimplify,
                   numConflicts, osVars, probeVars>>

\* Lines 906 and 950: status = simplifyProblem()
SolveSimplify ==
    /\ pc = "simplify"
    /\ \E fail \in ExternalPasses \cup {"none"} :
        \E R \in {simplifyProblem(Cur, conf, numSimplify, nVars, needToInterrupt, fail)} :
        \E G \in {IF R.tail /\ conf.doRenumberVars
                  THEN renumberVariables([CurAll EXCEPT !.S = R.S], nVars)
                  ELSE [CurAll EXCEPT !.S = R.S]} :
            /\ InstallAll(G)
            /\ status' = R.status
            /\ numSimplify' = IF R.early \/ numSimplify >= 2 THEN numSimplify
                              ELSE numSimplify + 1
            /\ numRenumber' = IF R.tail /\ conf.doRenumberVars /\ numRenumber < MaxRenumber
                              THEN numRenumber + 1 ELSE numRenumber
    /\ simplified' = TRUE
    /\ pc' = "loop"
    /\ UNCHANGED <<nVars, conf, needToInterrupt, numConflicts, searched,
                   lastCall, lastRet, osVars, solveArg, searchAssumptions, probeVars>>

\* Searcher::solve(assumptions, numConfls): the status it returns. Once the
\* interrupt flag is set the search unwinds to level 0 and returns l_Undef.
\* With every variable set at level 0 nothing is left to decide: the model
\* is found.
SearcherSolve(S, n, interrupt) ==
    IF \A v \in 0..(n - 1) : Value(S, MkLit(v, FALSE)) # "U" THEN {"l_True"}
    ELSE IF interrupt THEN {"l_Undef"}
    ELSE {"l_True", "l_False", "l_Undef"}

\* Lines 909-947: one round of the loop up to the break
SolveSearch ==
    /\ pc = "loop"
    /\ status = "l_Undef"
    /\ \E st \in SearcherSolve(Cur, nVars, needToInterrupt) :
        /\ status' = st
        /\ \E S1 \in {IF st = "l_False"
                       THEN [removeAndCleanAll(Cur) EXCEPT !.ok = FALSE]
                       ELSE removeAndCleanAll(Cur)} :
           \E S2 \in IF st # "l_False"
                      THEN { IF conf.doClearStatEveryClauseCleaning
                             THEN clearClauseStats(T) ELSE T :
                             T \in reduceDB(S1, conf, numConflicts) }
                      ELSE {S1} :
               Install(S2)
        /\ pc' = IF st # "l_Undef" THEN "finish" ELSE "simplify"
    /\ searched' = TRUE
    /\ searchAssumptions' = assumptions
    /\ UNCHANGED <<mapVars, auxVars, needToInterrupt, numSimplify, numConflicts,
                   simplified, lastCall, lastRet, osVars, assumptions, solveArg, probeVars>>

\* The loop condition fails: status is not l_Undef
SolveLoopExit ==
    /\ pc = "loop"
    /\ status # "l_Undef"
    /\ pc' = "finish"
    /\ UNCHANGED <<dbVars, mapVars, auxVars, needToInterrupt, numSimplify,
                   numConflicts, simplified, searched, status, lastCall, lastRet, osVars, assumeVars, probeVars>>

\* Lines 953-966: solve returns status; its locals go out of scope
SolveReturn ==
    /\ pc = "finish"
    /\ pc' = "idle"
    /\ lastRet' = status
    /\ status' = "l_Undef"
    /\ simplified' = FALSE
    /\ searched' = FALSE
    /\ solveArg' = NoArgument
    /\ searchAssumptions' = << >>
    /\ UNCHANGED <<dbVars, mapVars, auxVars, needToInterrupt, numSimplify,
                   numConflicts, lastCall, osVars, assumptions, probeVars>>

SolveStep == SolveSimplify \/ SolveSearch \/ SolveLoopExit \/ SolveReturn

\* ------------------------------------------------------------------------
\* Solver::subsumeAndStrengthenImplicit called on its own, as simplifyProblem
\* calls it
\* ------------------------------------------------------------------------
SubsumeAndStrengthenImplicit ==
    /\ pc = "idle"
    /\ ok
    /\ nVars > 0
    /\ \E S \in {subsumeAndStrengthenImplicit(Cur, nVars)} :
        /\ Install(S)
        /\ lastRet' = ToString(S.ok)
    /\ lastCall' = "subsumeAndStrengthenImplicit"
    /\ UNCHANGED <<mapVars, auxVars, solveVars, osVars, assumeVars, probeVars>>

\* ------------------------------------------------------------------------
\* Solver::dumpBinClauses, dumpLearnts, dumpIrredClauses. The stream is a
\* sequence of lines; a line is the loop that wrote it and its numbers.
\* ------------------------------------------------------------------------
CommentLine == [sec |-> "c", toks |-> << >>]

\* os << "c " << endl << "c ---" << endl << "c title" << endl << "c ---" << endl
Banner == <<CommentLine, CommentLine, CommentLine, CommentLine>>

DimacsLits(lits) == [i \in 1..Len(lits) |-> Dimacs(lits[i])]

\* os << lits << " 0" << endl
ClauseLine(sec, lits) == [sec |-> sec, toks |-> Append(DimacsLits(lits), 0)]

\* os << lits << endl
UnterminatedLine(sec, lits) == [sec |-> sec, toks |-> DimacsLits(lits)]

RECURSIVE dumpBinWatchers(_, _, _, _, _)
dumpBinWatchers(ws, k, lit, alsoLearnt, alsoNonLearnt) ==
    IF k > Len(ws) THEN << >>
    ELSE LET w == ws[k]
             toDump == (w.learnt /\ alsoLearnt) \/ (~w.learnt /\ alsoNonLearnt)
             rest == dumpBinWatchers(ws, k + 1, lit, alsoLearnt, alsoNonLearnt)
         IN  IF w.t = "bin" /\ lit < w.lit1 /\ toDump
             THEN <<ClauseLine("bin", <<w.lit1, lit>>)>> \o rest
             ELSE rest

RECURSIVE dumpBinClausesFrom(_, _, _, _)
dumpBinClausesFrom(W, wsLit, alsoLearnt, alsoNonLearnt) ==
    IF wsLit \notin DOMAIN W THEN << >>
    ELSE dumpBinWatchers(W[wsLit], 1, wsLit, alsoLearnt, alsoNonLearnt)
         \o dumpBinClausesFrom(W, wsLit + 1, alsoLearnt, alsoNonLearnt)

dumpBinClauses(W, alsoLearnt, alsoNonLearnt) ==
    dumpBinClausesFrom(W, 0, alsoLearnt, alsoNonLearnt)

\* countNumBinClauses(alsoLearnt, alsoNonLearnt)
countNumBinClauses(W, alsoLearnt, alsoNonLearnt) ==
    Len(dumpBinClauses(W, alsoLearnt, alsoNonLearnt))

\* The loop over trail[0 .. trail_lim[0]) at decision level 0
dumpUnits(tr) == [i \in 1..Len(tr) |-> ClauseLine("unit", <<tr[i]>>)]

\* The loop over the replace table, as dumpLearnts writes it
RECURSIVE dumpXorsTerminated(_, _)
dumpXorsTerminated(table, var) ==
    IF var \notin DOMAIN table THEN << >>
    ELSE LET lit == table[var] IN
         (IF LitVar(lit) = var THEN << >>
          ELSE <<ClauseLine("xor", <<Neg(lit), MkLit(var, FALSE)>>),
                 ClauseLine("xor", <<lit, MkLit(var, TRUE)>>)>>)
         \o dumpXorsTerminated(table, var + 1)

\* The loop over the replace table, as dumpIrredClauses writes it
RECURSIVE dumpXors(_, _)
dumpXors(table, var) ==
    IF var \notin DOMAIN table THEN << >>
    ELSE LET lit == table[var]
             litP1 == Neg(lit)
             litP2 == MkLit(var, FALSE)
         IN  (IF LitVar(lit) = var THEN << >>
              ELSE <<UnterminatedLine("xor", <<litP1, litP2>>),
                     UnterminatedLine("xor", <<Neg(litP1), Neg(litP2)>>)>>)
             \o dumpXors(table, var + 1)

NumXors(table) == Cardinality({ var \in DOMAIN table : LitVar(table[var]) # var })

\* The loop of dumpLearnts over the long clauses, each followed by the
\* comment line with its stats
RECURSIVE dumpLearntsLong(_, _, _, _)
dumpLearntsLong(arena, offs, k, maxSize) ==
    IF k > Len(offs) THEN << >>
    ELSE LET cl == arena[offs[k]] IN
         (IF Len(cl.lits) <= maxSize
          THEN <<ClauseLine("long", cl.lits), CommentLine>>
          ELSE << >>)
         \o dumpLearntsLong(arena, offs, k + 1, maxSize)

dumpLearnts(S, table, maxSize) ==
    Banner \o dumpUnits(S.trail)
    \o Banner \o (IF maxSize >= 2 THEN dumpBinClauses(S.watches, TRUE, FALSE) ELSE << >>)
    \o Banner \o (IF maxSize >= 2 THEN dumpXorsTerminated(table, 0) ELSE << >>)
    \o Banner \o dumpLearntsLong(S.arena, S.longIrredCls, 1, maxSize)

RECURSIVE dumpBlocked(_, _)
dumpBlocked(blocked, k) ==
    IF k > Len(blocked) THEN << >>
    ELSE <<CommentLine, ClauseLine("blocked", blocked[k].lits)>> \o dumpBlocked(blocked, k + 1)

dumpIrredClauses(S, n, table, blocked) ==
    LET numClauses == Len(S.trail) + 2 * NumXors(table)
                      + countNumBinClauses(S.watches, FALSE, TRUE)
                      + Len(S.longIrredCls) + Len(blocked)
    IN  <<[sec |-> "p", toks |-> <<n, numClauses>>]>>
        \o Banner \o dumpUnits(S.trail)
        \o Banner \o dumpXors(table, 0)
        \o Banner \o dumpBinClauses(S.watches, FALSE, TRUE)
        \o Banner \o [k \in 1..Len(S.longIrredCls) |->
                         ClauseLine("long", S.arena[S.longIrredCls[k]].lits)]
        \o Banner \o dumpBlocked(blocked, 1)

DumpMaxSizes == {1, 3, 4}

DumpIrredClauses ==
    /\ pc = "idle"
    /\ os = << >>
    /\ os' = dumpIrredClauses(Cur, nVars, replaceTable, blockedClauses)
    /\ lastCall' = "dumpIrredClauses"
    /\ lastRet' = "none"
    /\ UNCHANGED <<dbVars, mapVars, auxVars, solveVars, dumpMaxSize, assumeVars, probeVars>>

DumpLearnts ==
    /\ pc = "idle"
    /\ os = << >>
    /\ \E maxSize \in DumpMaxSizes :
        /\ os' = dumpLearnts(Cur, replaceTable, maxSize)
        /\ dumpMaxSize' = maxSize
    /\ lastCall' = "dumpLearnts"
    /\ lastRet' = "none"
    /\ UNCHANGED <<dbVars, mapVars, auxVars, solveVars, assumeVars, probeVars>>

\* ------------------------------------------------------------------------
\* The collaborators that fill the replace table and the blocked clauses,
\* each in its simplest case
\* ------------------------------------------------------------------------
VarInLong(S, v) ==
    \E k \in 1..Len(S.arena) :
        /\ ~S.arena[k].freed
        /\ \E i \in 1..Len(S.arena[k].lits) : LitVar(S.arena[k].lits[i]) = v

VarElimed(blocked, v) == \E k \in 1..Len(blocked) : LitVar(blocked[k].blockedOn) = v

detachBinClause(S, l1, l2) ==
    [S EXCEPT !.watches = removeW(removeW(S.watches, l1, WBin(l2, FALSE)), l2, WBin(l1, FALSE)),
              !.irredBins = @ - 1,
              !.irredLits = @ - 2]

\* VarReplacer::performReplace for one equivalence y = root that the
\* irredundant binaries (y, ~root) and (~y, root) give, y occurring in no
\* other clause: both binaries become tautologies and go, the table keeps
\* the equivalence
PerformReplace ==
    /\ pc = "idle"
    /\ ok
    /\ \E x \in 0..(nVars - 1), y \in 0..(nVars - 1), s \in BOOLEAN :
        LET root == MkLit(x, s)
            ly == MkLit(y, FALSE)
        IN  /\ x < y
            /\ assigns[x] = "U" /\ assigns[y] = "U"
            /\ replaceTable[x] = MkLit(x, FALSE)
            /\ replaceTable[y] = ly
            /\ watches[ly] = <<WBin(Neg(root), FALSE)>>
            /\ watches[Neg(ly)] = <<WBin(root, FALSE)>>
            /\ ~VarInLong(Cur, y)
            /\ Install(detachBinClause(detachBinClause(Cur, ly, Neg(root)), Neg(ly), root))
            /\ replaceTable' = [replaceTable EXCEPT ![y] = root]
    /\ lastCall' = "performReplace"
    /\ lastRet' = "TRUE"
    /\ UNCHANGED <<mapVars, blockedClauses, conf, solveVars, osVars, assumeVars, probeVars>>

\* Simplifier: the elimination of a variable whose only occurrence is one
\* irredundant binary: no resolvent, the clause is detached and saved as
\* blocked on its literal
EliminateVar ==
    /\ pc = "idle"
    /\ ok
    /\ \E l \in DOMAIN watches :
        /\ assigns[LitVar(l)] = "U"
        /\ replaceTable[LitVar(l)] = MkLit(LitVar(l), FALSE)
        /\ \A u \in DOMAIN replaceTable : LitVar(replaceTable[u]) = LitVar(l) => u = LitVar(l)
        /\ Len(watches[l]) = 1
        /\ watches[l][1].t = "bin" /\ ~watches[l][1].learnt
        /\ watches[Neg(l)] = << >>
        /\ ~VarInLong(Cur, LitVar(l))
        /\ LET o == watches[l][1].lit1 IN
            /\ Install(detachBinClause(Cur, l, o))
            /\ blockedClauses' = Append(blockedClauses, [blockedOn |-> l, lits |-> <<l, o>>])
    /\ lastCall' = "eliminateVar"
    /\ lastRet' = "TRUE"
    /\ UNCHANGED <<mapVars, replaceTable, conf, solveVars, osVars, assumeVars, probeVars>>

\* ------------------------------------------------------------------------
\* The clause database: the operations that add, remove and rewrite clauses
\* ------------------------------------------------------------------------
Next ==
    \/ NewVar
    \/ AddClause
    \/ AddLearntClause
    \/ NewClauseByThread
    \/ ReduceDB
    \/ SubsumeAndStrengthenImplicit

Spec == Init /\ [][Next]_vars

\* ------------------------------------------------------------------------
\* The solve loop over a small database
\* ------------------------------------------------------------------------
MaxSolveDbSize == 2

SolveInputClauses == { <<0>>, <<1>>, <<0, 2>>, <<0, 3>>, <<1, 2, 4>> }

SolveAddClause == AddClauseFrom(SolveInputClauses, MaxSolveDbSize)

SolveAddLearntClause == AddLearntClauseFrom(SolveInputClauses \cup {<<0, 2, 4, 6>>}, MaxSolveDbSize)

SolveNext ==
    \/ NewVar
    \/ SolveAddClause
    \/ SolveAddLearntClause
    \/ SetNeedToInterrupt
    \/ SolveBegin
    \/ SolveSimplify
    \/ SolveSearch
    \/ SolveLoopExit
    \/ SolveReturn

SpecSolve == Init /\ [][SolveNext]_vars

\* The positions of a call of solve
SolvePositions == {"idle", "simplify", "loop", "finish"}

\* A step of solve moves its position on: at every position but idle one of
\* the disjuncts of SolveStep is enabled, each of them changes pc, and no
\* other action does
SolveAdvances == pc # "idle" /\ pc' \in SolvePositions

\* The scheduling of solve: a call that has begun keeps running
FairSpecSolve == SpecSolve /\ WF_pc(SolveAdvances)


\* ------------------------------------------------------------------------
\* Dumping the database: a run adds clauses, simplifies, and at its end
\* writes one dump
\* ------------------------------------------------------------------------
MaxDumpDbSize == 3

DumpInputClauses == { <<0>>, <<0, 3>>, <<1, 2>>, <<0, 2, 4>>, <<1, 2, 4, 6>> }

DumpLearntClauses == { <<0, 2>>, <<1, 3, 5, 7>> }

NoVarElimed(lits) == \A i \in 1..Len(lits) : ~VarElimed(blockedClauses, LitVar(lits[i]))

DumpNewVar == os = << >> /\ NewVar

DumpAddClause ==
    /\ os = << >>
    /\ AddClauseFrom({ c \in DumpInputClauses : NoVarElimed(c) }, MaxDumpDbSize)

DumpAddLearntClause ==
    /\ os = << >>
    /\ AddLearntClauseFrom({ c \in DumpLearntClauses : NoVarElimed(c) }, MaxDumpDbSize)

DumpPerformReplace == os = << >> /\ PerformReplace

DumpEliminateVar == os = << >> /\ EliminateVar

DumpNext ==
    \/ DumpNewVar
    \/ DumpAddClause
    \/ DumpAddLearntClause
    \/ DumpPerformReplace
    \/ DumpEliminateVar
    \/ DumpIrredClauses
    \/ DumpLearnts

SpecDump == Init /\ [][DumpNext]_vars


\* ------------------------------------------------------------------------
\* Renumbering: variables are declared, some are set at level 0, and the
\* variables are renumbered
\* ------------------------------------------------------------------------
MaxRenumberDbSize == 3

RenumberInputClauses == { <<0>>, <<1>>, <<2>>, <<5>>, <<0, 2>>, <<2, 4, 6>> }

RenumberAddClause == AddClauseFrom(RenumberInputClauses, MaxRenumberDbSize)

RenumberNext ==
    \/ NewVar
    \/ RenumberAddClause
    \/ RenumberVariables

SpecRenumber == Init /\ [][RenumberNext]_vars


\* ------------------------------------------------------------------------
\* Solver::simplifyProblem called on its own on a database of binaries and
\* ternaries, with and without the renumbering
\* ------------------------------------------------------------------------
MaxSimplifyDbSize == 5

SimplifyConfigurations ==
    { [clauseCleaningType |-> "glue",
       ratioRemoveClauses |-> <<1, 2>>,
       doPreClauseCleanPropAndConfl |-> FALSE,
       preClauseCleanLimit |-> 1,
       preCleanMinConflTime |-> 0,
       doFindAndReplaceEqLits |-> TRUE,
       doProbe |-> TRUE,
       doClausVivif |-> TRUE,
       doSatELite |-> TRUE,
       doSortWatched |-> TRUE,
       doRenumberVars |-> r,
       doClearStatEveryClauseCleaning |-> TRUE] : r \in BOOLEAN }

SimplifyInit ==
    /\ ok = TRUE
    /\ nVars = 0
    /\ assigns = << >>
    /\ trail = << >>
    /\ watches = << >>
    /\ clAllocator = << >>
    /\ longIrredCls = << >>
    /\ longRedCls = << >>
    /\ irredLits = 0 /\ redLits = 0
    /\ irredBins = 0 /\ redBins = 0
    /\ irredTris = 0 /\ redTris = 0
    /\ outerToInterMain = << >>
    /\ interToOuterMain = << >>
    /\ replaceTable = << >>
    /\ blockedClauses = << >>
    /\ conf \in SimplifyConfigurations
    /\ needToInterrupt = FALSE
    /\ numSimplify = 0
    /\ numConflicts = 0
    /\ simplified = FALSE
    /\ searched = FALSE
    /\ numRenumber = 0
    /\ pc = "idle"
    /\ status = "l_Undef"
    /\ lastCall = "none"
    /\ lastRet = "none"
    /\ os = << >>
    /\ dumpMaxSize = 0
    /\ assumptions = << >>
    /\ solveArg = NoArgument
    /\ searchAssumptions = << >>
    /\ probing = NoProbing
    /\ searcher = NewSearcher

SimplifyInputClauses == { <<0>>, <<0, 2, 4>>, <<1, 2>>, <<3, 4, 6>>, <<4, 6>>, <<0, 3>> }

SimplifyAddClause == AddClauseFrom(SimplifyInputClauses, MaxSimplifyDbSize)

\* Lines 1065-1068 of simplifyProblem: renumberVariables, when the end of
\* the passes was reached
simplifyRenumber(G, R, cf, n) ==
    IF R.tail /\ cf.doRenumberVars
    THEN renumberVariables([G EXCEPT !.S = R.S], n)
    ELSE [G EXCEPT !.S = R.S]

\* Line 1087: solveStats.numSimplify++, which the model stops counting at 2
\* (the code only tests numSimplify > 0 and numSimplify > 1)
NextNumSimplify(R, nSimp) == IF R.early \/ nSimp >= 2 THEN nSimp ELSE nSimp + 1

SimplifyProblem ==
    /\ pc = "idle"
    /\ ok
    /\ nVars > 0
    /\ \E fail \in ExternalPasses \cup {"none"} :
        \E R \in {simplifyProblem(Cur, conf, numSimplify, nVars, needToInterrupt, fail)} :
        \E G \in {simplifyRenumber(CurAll, R, conf, nVars)} :
            /\ InstallAll(G)
            /\ lastRet' = R.status
            /\ numSimplify' = NextNumSimplify(R, numSimplify)
            /\ numRenumber' = IF R.tail /\ conf.doRenumberVars /\ numRenumber < MaxRenumber
                              THEN numRenumber + 1 ELSE numRenumber
    /\ lastCall' = "simplifyProblem"
    /\ UNCHANGED <<nVars, conf, needToInterrupt, numConflicts, simplified, searched,
                   pc, status, osVars, solveArg, searchAssumptions, probeVars>>

SimplifyNext ==
    \/ NewVar
    \/ SimplifyAddClause
    \/ SimplifyProblem

SpecSimplify == SimplifyInit /\ [][SimplifyNext]_vars


\* ------------------------------------------------------------------------
\* Solver::reduceDB over long learnt clauses of two sizes, under the three
\* orderings, with and without the pre-clean step
\* ------------------------------------------------------------------------
MaxReduceVars == 5
MaxReduceDbSize == 4
MaxConflicts == 1

ReduceConfigurations ==
    { [clauseCleaningType |-> t,
       ratioRemoveClauses |-> <<1, 2>>,
       doPreClauseCleanPropAndConfl |-> pre,
       preClauseCleanLimit |-> 1,
       preCleanMinConflTime |-> 0,
       doFindAndReplaceEqLits |-> TRUE,
       doProbe |-> TRUE,
       doClausVivif |-> TRUE,
       doSatELite |-> TRUE,
       doSortWatched |-> TRUE,
       doRenumberVars |-> FALSE,
       doClearStatEveryClauseCleaning |-> TRUE] :
      t \in {"glue", "size", "propconfl"}, pre \in BOOLEAN }

ReduceInit ==
    /\ ok = TRUE
    /\ nVars = 0
    /\ assigns = << >>
    /\ trail = << >>
    /\ watches = << >>
    /\ clAllocator = << >>
    /\ longIrredCls = << >>
    /\ longRedCls = << >>
    /\ irredLits = 0 /\ redLits = 0
    /\ irredBins = 0 /\ redBins = 0
    /\ irredTris = 0 /\ redTris = 0
    /\ outerToInterMain = << >>
    /\ interToOuterMain = << >>
    /\ replaceTable = << >>
    /\ blockedClauses = << >>
    /\ conf \in ReduceConfigurations
    /\ needToInterrupt = FALSE
    /\ numSimplify = 0
    /\ numConflicts = 0
    /\ simplified = FALSE
    /\ searched = FALSE
    /\ numRenumber = 0
    /\ pc = "idle"
    /\ status = "l_Undef"
    /\ lastCall = "none"
    /\ lastRet = "none"
    /\ os = << >>
    /\ dumpMaxSize = 0
    /\ assumptions = << >>
    /\ solveArg = NoArgument
    /\ searchAssumptions = << >>
    /\ probing = NoProbing
    /\ searcher = NewSearcher

ReduceLearntClauses == { <<0, 2, 4, 6>>, <<0, 2, 4, 6, 8>> }

ReduceStats == { [glue |-> 2, propConfl |-> 0, introduced |-> 0],
                 [glue |-> 3, propConfl |-> 1, introduced |-> 0],
                 [glue |-> 2, propConfl |-> 1, introduced |-> 0] }

ReduceNewVar == NewVarUpTo(MaxReduceVars)

ReduceAddLearntClause ==
    /\ pc = "idle"
    /\ DbSize < MaxReduceDbSize
    /\ \E lits \in ReduceLearntClauses, stats \in ReduceStats :
        /\ Declared(lits)
        /\ \E S \in {addLearntClause(Cur, replaceTable, lits, stats)} :
            /\ Install(S)
            /\ lastRet' = ToString(S.ok)
    /\ lastCall' = "addLearntClause"
    /\ UNCHANGED <<mapVars, auxVars, solveVars, osVars, assumeVars, probeVars>>

\* A conflict of the search: sumStats.conflStats.numConflicts grows
SearchConflict ==
    /\ pc = "idle"
    /\ numConflicts < MaxConflicts
    /\ numConflicts' = numConflicts + 1
    /\ UNCHANGED <<dbVars, mapVars, auxVars, needToInterrupt, numSimplify,
                   simplified, searched, pc, status, lastCall, lastRet, osVars, assumeVars, probeVars>>

ReduceNext ==
    \/ ReduceNewVar
    \/ ReduceAddLearntClause
    \/ SearchConflict
    \/ ReduceDB

SpecReduce == ReduceInit /\ [][ReduceNext]_vars


\* ------------------------------------------------------------------------
\* Solver::simplifyProblem on binaries over two variables, which together
\* are unsatisfiable
\* ------------------------------------------------------------------------
MaxUnsatDbSize == 4

UnsatInputClauses == { <<0, 2>>, <<0, 3>>, <<1, 2>>, <<1, 3>> }

UnsatAddClause == AddClauseFrom(UnsatInputClauses, MaxUnsatDbSize)

SimplifyUnsatNext ==
    \/ NewVar
    \/ UnsatAddClause
    \/ SimplifyProblem

SpecSimplifyUnsat == SimplifyInit /\ [][SimplifyUnsatNext]_vars


\* ------------------------------------------------------------------------
\* Solver::subsumeAndStrengthenImplicit on one ternary and the binaries
\* that share a variable with it
\* ------------------------------------------------------------------------
MaxStrengthenDbSize == 4

StrengthenInputClauses ==
    { <<0, 2, 4>>, <<1, 2>>, <<1, 3>>, <<3, 4>>, <<0, 6>>, <<0, 2>> }

StrengthenAddClause == AddClauseFrom(StrengthenInputClauses, MaxStrengthenDbSize)

StrengthenAddLearntClause ==
    AddLearntClauseFrom(StrengthenInputClauses, MaxStrengthenDbSize)

StrengthenNext ==
    \/ NewVar
    \/ StrengthenAddClause
    \/ StrengthenAddLearntClause
    \/ SubsumeAndStrengthenImplicit

SpecStrengthen == Init /\ [][StrengthenNext]_vars


\* ------------------------------------------------------------------------
\* Solver::subsumeAndStrengthenImplicit on ternaries that share two
\* literals, next to a learnt binary they imply
\* ------------------------------------------------------------------------
MaxImpliedDbSize == 4

ImpliedInputClauses == { <<0, 2, 6>>, <<0, 4, 6>>, <<0, 4, 7>>, <<1, 4>> }

ImpliedLearntClauses == { <<0, 4>>, <<0, 4, 6>> }

ImpliedAddClause == AddClauseFrom(ImpliedInputClauses, MaxImpliedDbSize)

ImpliedAddLearntClause == AddLearntClauseFrom(ImpliedLearntClauses, MaxImpliedDbSize)

ImpliedNext ==
    \/ NewVar
    \/ ImpliedAddClause
    \/ ImpliedAddLearntClause
    \/ SubsumeAndStrengthenImplicit

SpecImplied == Init /\ [][ImpliedNext]_vars


\* ------------------------------------------------------------------------
\* Solver::verifyModel, verifyClauses, verifyBinClauses. A model gives every
\* variable l_True, l_False or l_Undef.
\* ------------------------------------------------------------------------
Models == [0..(nVars - 1) -> {"T", "F", "U"}]

modelValue(model, l) ==
    IF model[LitVar(l)] = "U" THEN "U"
    ELSE IF (model[LitVar(l)] = "T") = (LitSign(l) = 0) THEN "T" ELSE "F"

\* Lines 1833-1857: false at the first binary watcher with neither literal
\* true
verifyBinClauses(S, model) ==
    \A l \in DOMAIN S.watches : \A k \in 1..Len(S.watches[l]) :
        ~ (/\ S.watches[l][k].t = "bin"
           /\ modelValue(model, l) # "T"
           /\ modelValue(model, S.watches[l][k].lit1) # "T")

\* Lines 1859-1883
verifyClauses(S, cs, model) ==
    \A k \in 1..Len(cs) :
        \E j \in 1..Len(S.arena[cs[k]].lits) : modelValue(model, S.arena[cs[k]].lits[j]) = "T"

\* Lines 1885-1899
verifyModel(S, model) ==
    /\ verifyClauses(S, S.longIrredCls, model)
    /\ verifyClauses(S, S.longRedCls, model)
    /\ verifyBinClauses(S, model)


\* ========================================================================
\* FailedVarSearcher (src/Solver/FailedVarSearcher.cpp)
\* ========================================================================
\* The solver as probing sees it: the database S, the replacement table,
\* the decision levels, the heuristics, and the searcher's own fields fs
NoCallState == [propagated |-> {}, propValue |-> {}, bothSame |-> << >>,
                propagatedBin |-> {}, propagatedVars |-> << >>,
                numFailed |-> 0, goodBothSame |-> 0, bothInvert |-> 0,
                binClauseAdded |-> 0, hyperbinProps |-> 0, maxHyperBinProps |-> 0,
                myimplies |-> {},
                litDegrees |-> << >>, asserted |-> TRUE, added |-> << >>,
                probed |-> << >>, numProps |-> 0, fromVar |-> 0,
                freed |-> << >>, pastEnd |-> FALSE,
                setOneHop |-> {}, wrong |-> << >>, fixed |-> FALSE,
                removedUselessBin |-> 0]

ProbeState == [S |-> Cur, table |-> replaceTable, lim |-> probing.lim,
               polarity |-> probing.polarity, activity |-> probing.activity,
               var_inc |-> probing.var_inc, order_heap |-> probing.order_heap,
               propagations |-> probing.propagations,
               removedLearnts |-> probing.removedLearnts,
               addExtraBins |-> probing.addExtraBins,
               readdOldLearnts |-> probing.readdOldLearnts,
               fv |-> searcher, fs |-> NoCallState, ret |-> TRUE]

\* ------------------------------------------------------------------------
\* What probing uses of the solver: decision levels, enqueue, the three
\* propagations, cancelUntil(0)
\* ------------------------------------------------------------------------
decisionLevel(P) == Len(P.lim)

newDecisionLevel(P) == [P EXCEPT !.lim = Append(@, Len(P.S.trail))]

\* The phase of every literal of the trail from position from on is cached
SavePolarities(polarity, tr, from) ==
    [v \in DOMAIN polarity |->
        IF \E i \in from..Len(tr) : LitVar(tr[i]) = v
        THEN \E i \in from..Len(tr) : tr[i] = MkLit(v, TRUE)
        ELSE polarity[v]]

uncheckedEnqueue(P, l) ==
    [P EXCEPT !.S = enqueue(@, l), !.polarity[LitVar(l)] = (LitSign(l) = 1)]

\* The binary watchers of a list
RECURSIVE BinWatchers(_)
BinWatchers(ws) ==
    IF ws = << >> THEN << >>
    ELSE IF Head(ws).t = "bin" THEN <<Head(ws)>> \o BinWatchers(Tail(ws))
    ELSE BinWatchers(Tail(ws))

\* Solver::propagateBin: only binary clauses are followed
RECURSIVE PropagateBinFrom(_, _)
PropagateBinFrom(S, qhead) ==
    IF S.confl \/ qhead > Len(S.trail) THEN S
    ELSE PropagateBinFrom(PropWatchers(S, BinWatchers(S.watches[Neg(S.trail[qhead])]), 1),
                          qhead + 1)

\* Solver::propagateBinOneLevel: only the binaries of the decision literal
PropagateBinOneLevelFrom(S, qhead) ==
    PropWatchers(S, BinWatchers(S.watches[Neg(S.trail[qhead])]), 1)

\* The solver after a propagation that started at position from and gave
\* S1; S.confl tells whether it returned a conflict
AfterPropagation(P, S1, from) ==
    [P EXCEPT !.S = S1,
              !.polarity = SavePolarities(@, S1.trail, from),
              !.propagations = @ + (Len(S1.trail) + 1 - from)]

probePropagate(P, from) == AfterPropagation(P, PropagateFrom(P.S, from), from)

probePropagateBin(P, from) == AfterPropagation(P, PropagateBinFrom(P.S, from), from)

probePropagateBinOneLevel(P, from) ==
    AfterPropagation(P, PropagateBinOneLevelFrom(P.S, from), from)

\* newDecisionLevel(); uncheckedEnqueue(lit); then the given propagation
Decide(P, lit) == uncheckedEnqueue(newDecisionLevel(P), lit)

\* Solver::cancelUntil(0)
cancelUntil(P) ==
    IF P.lim = << >> THEN [P EXCEPT !.S.confl = FALSE]
    ELSE [P EXCEPT !.S.assigns = [v \in DOMAIN @ |->
                                    IF \E i \in (P.lim[1] + 1)..Len(P.S.trail) :
                                          LitVar(P.S.trail[i]) = v
                                    THEN "U" ELSE @[v]],
                   !.S.trail = SubSeq(@, 1, P.lim[1]),
                   !.S.confl = FALSE,
                   !.lim = << >>]

\* uncheckedEnqueue(lit); solver.ok = (solver.propagate() == NULL) at level 0
EnqueueAndPropagate(P, lit) ==
    [probePropagate(uncheckedEnqueue(P, lit), Len(P.S.trail) + 1)
        EXCEPT !.S = PropagateEnd(@)]

\* The literal of the trail at position c (counted from 1) is true
TrueOnTrail(P, x) == P.S.assigns[x] = "T"

\* ------------------------------------------------------------------------
\* VarReplacer::replace on the replacement table: ps[0] and ps[1] are equal
\* when invert, opposite otherwise. False, with ok false, when the table
\* already says the contrary.
\* ------------------------------------------------------------------------
ReplaceJoin(P, r1, r2) ==
    IF LitVar(r1) = LitVar(r2) THEN
        IF r1 = r2 THEN [P EXCEPT !.ret = TRUE]
        ELSE [P EXCEPT !.S.ok = FALSE, !.ret = FALSE]
    ELSE [P EXCEPT !.table = [u \in DOMAIN @ |->
                                IF LitVar(@[u]) = LitVar(r1)
                                THEN XorSign(r2, @[u] # r1) ELSE @[u]],
                   !.fs.bothInvert = @ + 1,
                   !.ret = TRUE]

replace(P, v1, v2, invert) ==
    ReplaceJoin(P, P.table[v1], XorSign(P.table[v2], ~invert))

\* ------------------------------------------------------------------------
\* FailedVarSearcher::addBinClauses, fillImplies, addBin
\* ------------------------------------------------------------------------
\* The variables assigned above decision level 0
ProbeVars(P) == { LitVar(P.S.trail[i]) : i \in (P.lim[1] + 1)..Len(P.S.trail) }

\* Lines 669-682: the variables set by unit propagation of lit alone
fillImpliesAfter(P1) ==
    [cancelUntil(P1) EXCEPT !.fs.asserted = @ /\ ~P1.S.confl,
                            !.fs.myimplies = ProbeVars(P1)]

fillImplies(P, lit) == fillImpliesAfter(probePropagate(Decide(P, lit), Len(P.S.trail) + 1))

\* Lines 707-716: the learnt binary (~lit1 or lit2)
addBin(P, lit1, lit2) ==
    [P EXCEPT !.S = addLearntClause(@, P.table, <<Neg(lit1), lit2>>, NoStats),
              !.fs.binClauseAdded = @ + 1,
              !.fs.added = Append(@, <<lit1, lit2>>)]

\* Lines 646-653: the first propagated variable not yet covered that lit
\* implies gets its binary, and all that lit implies is covered
RECURSIVE AddBinForLevel(_, _, _)
AddBinForLevel_OtherValue(P, l, k) ==
    IF k > Len(P.fs.propagatedVars) THEN P
    ELSE IF P.fs.propagatedVars[k] \in P.fs.propagatedBin
            /\ P.fs.propagatedVars[k] \in P.fs.myimplies
         THEN [addBin(P, l, MkLit(P.fs.propagatedVars[k],
                                  P.fs.propagatedVars[k] \in P.fs.propValue))
                  EXCEPT !.fs.propagatedBin = @ \ P.fs.myimplies]
         ELSE AddBinForLevel(P, l, k + 1)

AddBinForLevel(P, l, k) ==
    IF k > Len(P.fs.propagatedVars) THEN P
    ELSE IF P.fs.propagatedVars[k] \in P.fs.propagatedBin
            /\ P.fs.propagatedVars[k] \in P.fs.myimplies
         THEN [addBin(P, l, MkLit(P.fs.propagatedVars[k],
                                  ~(P.fs.propagatedVars[k] \in P.fs.propValue)))
                  EXCEPT !.fs.propagatedBin = @ \ P.fs.myimplies]
         ELSE AddBinForLevel(P, l, k + 1)

\* Lines 639-660: the loop over toVisit, left when all is covered
RECURSIVE VisitLoop(_, _, _)
RECURSIVE VisitNext(_, _, _)
VisitLoop(P, toVisit, i) ==
    IF i > Len(toVisit) THEN P
    ELSE VisitNext(AddBinForLevel(fillImplies(P, toVisit[i]), toVisit[i], 1), toVisit, i)

VisitNext(P, toVisit, i) ==
    IF P.fs.propagatedBin = {} THEN P ELSE VisitLoop(P, toVisit, i + 1)

\* Line 661: assert(propagatedBin.isZero())
AssertCovered(P) == [P EXCEPT !.fs.asserted = @ /\ (P.fs.propagatedBin = {})]

\* std::sort(toVisit, litOrder(litDegrees)): higher degree first
RECURSIVE InsertByDegree(_, _, _)
InsertByDegree(s, x, deg) ==
    IF s = << >> THEN <<x>>
    ELSE IF deg[x] > deg[Head(s)] THEN <<x>> \o s
    ELSE <<Head(s)>> \o InsertByDegree(Tail(s), x, deg)

RECURSIVE SortByDegree(_, _, _)
SortByDegree(s, n, deg) ==
    IF n = 0 THEN << >> ELSE InsertByDegree(SortByDegree(s, n - 1, deg), s[n], deg)

\* The trail above level 0, from the top down
RECURSIVE TopDown(_, _, _)
TopDown(tr, c, low) ==
    IF c < low THEN << >> ELSE <<tr[c]>> \o TopDown(tr, c - 1, low)

\* Lines 638-661: nothing to do when the binary propagation covered all
AddBinClausesVisit(P, toVisit) ==
    IF P.fs.propagatedBin = {} THEN P
    ELSE AssertCovered(VisitLoop(P, toVisit, 1))

\* Lines 663-666
AddBinClausesEnd(P, oldProps) ==
    [P EXCEPT !.fs.propagatedBin = {},
              !.fs.propagatedVars = << >>,
              !.fs.hyperbinProps = @ + (P.propagations - oldProps)]

\* Lines 616-638 and 661-666, given the binary propagation P1 of lit
addBinClausesAfter(P, P1, oldProps) ==
    AddBinClausesEnd(
        AddBinClausesVisit(
            [cancelUntil(P1) EXCEPT !.fs.asserted = @ /\ ~P1.S.confl,
                                    !.fs.propagatedBin = @ \ ProbeVars(P1)],
            SortByDegree(TopDown(P1.S.trail, Len(P1.S.trail), P1.lim[1] + 1),
                         Len(P1.S.trail) - P1.lim[1], P.fs.litDegrees)),
        oldProps)

addBinClauses(P, lit) ==
    addBinClausesAfter(P, probePropagateBin(Decide(P, lit), Len(P.S.trail) + 1),
                       P.propagations)

\* ------------------------------------------------------------------------
\* FailedVarSearcher::tryBoth (binXorFind is false: fewer than 5 xor clauses)
\* ------------------------------------------------------------------------
\* Lines 473-479 and 515-521: the probe conflicted
ReturnOk(P) == [P EXCEPT !.ret = P.S.ok]

FailedProbe(P1, lit) ==
    ReturnOk(EnqueueAndPropagate([cancelUntil(P1) EXCEPT !.fs.numFailed = @ + 1], Neg(lit)))

\* Lines 482-492: one literal of the first probe's trail
RecordFirst(P, x) ==
    [P EXCEPT !.fs.propagated = @ \cup {x},
              !.fs.propagatedBin = IF P.addExtraBins THEN @ \cup {x} ELSE @,
              !.fs.propagatedVars = IF P.addExtraBins THEN Append(@, x) ELSE @,
              !.fs.propValue = IF P.S.assigns[x] = "T" THEN @ \cup {x} ELSE @ \ {x}]

RECURSIVE FirstLoop(_, _)
FirstLoop(P, c) ==
    IF c <= P.lim[1] THEN P
    ELSE FirstLoop(RecordFirst(P, LitVar(P.S.trail[c])), c - 1)

\* Lines 510 and 581
MayAddBinClauses(P, lit) ==
    IF P.addExtraBins /\ P.fs.hyperbinProps < P.fs.maxHyperBinProps
    THEN addBinClauses(P, lit) ELSE P

\* Lines 531-551: one literal of the second probe's trail that the first
\* probe had set too; ret is false when replace failed
RecordBoth_NoBothSame(P, lit1, lit2, c, x) ==
    IF (x \in P.fs.propValue) = (P.S.assigns[x] = "T") THEN P
    ELSE IF c # P.lim[1] + 1 THEN
        IF LitVar(lit1) = LitVar(lit2)
        THEN replace(P, LitVar(lit1), x, x \in P.fs.propValue)
        ELSE replace(P, LitVar(lit1), LitVar(lit2), LitSign(lit1) # LitSign(lit2))
    ELSE P

RecordBoth(P, lit1, lit2, c, x) ==
    IF (x \in P.fs.propValue) = (P.S.assigns[x] = "T") THEN
        [P EXCEPT !.fs.bothSame = Append(@, <<x, ~(x \in P.fs.propValue)>>)]
    ELSE IF c # P.lim[1] + 1 THEN
        IF LitVar(lit1) = LitVar(lit2)
        THEN replace(P, LitVar(lit1), x, x \in P.fs.propValue)
        ELSE replace(P, LitVar(lit1), LitVar(lit2), LitSign(lit1) # LitSign(lit2))
    ELSE P

\* Lines 527-530
RecordSecondBin(P, x) ==
    [P EXCEPT !.fs.propagatedBin = IF P.addExtraBins THEN @ \cup {x} ELSE @,
              !.fs.propagatedVars = IF P.addExtraBins THEN Append(@, x) ELSE @]

\* Lines 552-553
RecordValue(P, x) ==
    [P EXCEPT !.fs.propValue = IF P.S.assigns[x] = "T" THEN @ \cup {x} ELSE @ \ {x}]

\* Lines 524-555: the loop over the second probe's trail, left by the
\* return on a failed replace
RECURSIVE SecondLoop(_, _, _, _)
RECURSIVE SecondNext(_, _, _, _, _)
SecondLoop(P, lit1, lit2, c) ==
    IF c <= P.lim[1] THEN P
    ELSE IF LitVar(P.S.trail[c]) \in P.fs.propagated
         THEN SecondNext(RecordBoth(RecordSecondBin(P, LitVar(P.S.trail[c])), lit1, lit2, c,
                                    LitVar(P.S.trail[c])),
                         lit1, lit2, c, LitVar(P.S.trail[c]))
         ELSE SecondLoop(RecordValue(P, LitVar(P.S.trail[c])), lit1, lit2, c - 1)

SecondNext(P, lit1, lit2, c, x) ==
    IF ~P.ret THEN P ELSE SecondLoop(RecordValue(P, x), lit1, lit2, c - 1)

\* Lines 583-589: the variables with one value in both probes are enqueued
RECURSIVE EnqueueBothSame(_, _)
EnqueueBothSame(P, i) ==
    IF i > Len(P.fs.bothSame) THEN P
    ELSE EnqueueBothSame(uncheckedEnqueue(P, MkLit(P.fs.bothSame[i][1], P.fs.bothSame[i][2])),
                         i + 1)

BothSameEnd(P, from) ==
    ReturnOk([probePropagate([EnqueueBothSame(P, 1)
                                 EXCEPT !.fs.goodBothSame = @ + Len(P.fs.bothSame),
                                        !.fs.bothSame = << >>],
                             from)
                 EXCEPT !.S = PropagateEnd(@)])

BothSameEndAt(P) == BothSameEnd(P, Len(P.S.trail) + 1)

\* Lines 578-591, after the second probe's loop
SecondProbeEnd(P, lit2) ==
    IF ~P.ret THEN P
    ELSE BothSameEndAt(MayAddBinClauses(cancelUntil(P), lit2))

\* Lines 512-591: the second probe, given its propagation P2
SecondProbe(P2, lit1, lit2) ==
    IF P2.S.confl THEN FailedProbe(P2, lit2)
    ELSE SecondProbeEnd(SecondLoop(P2, lit1, lit2, Len(P2.S.trail)), lit2)

\* Lines 470-510: the first probe, given its propagation P1
FirstProbe(P1, lit1) ==
    MayAddBinClauses(cancelUntil(FirstLoop(P1, Len(P1.S.trail))), lit1)

\* The full propagation of a new decision
Probe(P, lit) == probePropagate(Decide(P, lit), Len(P.S.trail) + 1)

TryBothStart(P) == [P EXCEPT !.fs.propagated = {}, !.ret = TRUE]

TryBothSecond(P, lit1, lit2) == SecondProbe(Probe(P, lit2), lit1, lit2)

TryBothFirst(P1, lit1, lit2) ==
    IF P1.S.confl THEN FailedProbe(P1, lit1)
    ELSE TryBothSecond(FirstProbe(P1, lit1), lit1, lit2)

tryBoth(P, lit1, lit2) == TryBothFirst(Probe(TryBothStart(P), lit1), lit1, lit2)


\* ------------------------------------------------------------------------
\* FailedVarSearcher::orderLits; picks are the literals the random number
\* generator draws
\* ------------------------------------------------------------------------
NumVars(P) == Cardinality(DOMAIN P.S.assigns)

ZeroDegrees(P) == [l \in 0..(2 * NumVars(P) - 1) |-> 0]

\* Lines 342-345: every literal above the decision gets one more degree
RECURSIVE CountDegrees(_, _, _, _)
CountDegrees(deg, tr, c, low) ==
    IF c <= low THEN deg
    ELSE CountDegrees([deg EXCEPT ![tr[c]] = @ + 1], tr, c - 1, low)

\* Lines 333-346, given the binary propagation P1 of randLit
OrderPick(P1, randLit) ==
    IF P1.S.confl THEN EnqueueAndPropagate(cancelUntil(P1), Neg(randLit))
    ELSE [cancelUntil(P1) EXCEPT !.fs.litDegrees =
              CountDegrees(@, P1.S.trail, Len(P1.S.trail), P1.lim[1] + 1)]

RECURSIVE orderLitsLoop(_, _, _, _)
RECURSIVE OrderLitsNext(_, _, _, _)
orderLitsLoop(P, picks, i, oldProps) ==
    IF i > Len(picks) THEN [P EXCEPT !.propagations = oldProps, !.ret = TRUE]
    ELSE IF P.S.assigns[LitVar(picks[i])] # "U" THEN orderLitsLoop(P, picks, i + 1, oldProps)
    ELSE OrderLitsNext(OrderPick(probePropagateBin(Decide(P, picks[i]), Len(P.S.trail) + 1),
                                 picks[i]),
                       picks, i, oldProps)

OrderLitsNext(P, picks, i, oldProps) ==
    IF ~P.S.ok THEN [P EXCEPT !.ret = FALSE]
    ELSE orderLitsLoop(P, picks, i + 1, oldProps)

orderLits(P, picks) ==
    orderLitsLoop([P EXCEPT !.fs.litDegrees = ZeroDegrees(P)], picks, 1, P.propagations)

\* ------------------------------------------------------------------------
\* FailedVarSearcher::readdRemovedLearnts and removeOldLearnts. An entry
\* of removedLearnts is a clause with the offset it is attached at, 0 when
\* it is not. it1 and it2 count from 1; the end of the array is n + 1.
\* ------------------------------------------------------------------------
\* A small number in place of the constant of the header, so that both
\* branches of line 377 are taken
MAX_OLD_LEARNTS == 2

OldLearnt(lits) == [lits |-> lits, off |-> 0]

\* std::sort with reduceDB_ltOldLearnt: larger clauses first
RECURSIVE InsertBySize(_, _)
InsertBySize(s, x) ==
    IF s = << >> THEN <<x>>
    ELSE IF Len(x.lits) > Len(Head(s).lits) THEN <<x>> \o s
    ELSE <<Head(s)>> \o InsertBySize(Tail(s), x)

RECURSIVE SortBySize(_, _)
SortBySize(s, n) ==
    IF n = 0 THEN << >> ELSE InsertBySize(SortBySize(s, n - 1), s[n])

\* free(*it) for every it in from..to
FreeRange(P, from, to) ==
    [P EXCEPT !.fs.freed = @ \o [k \in 1..(to - from + 1) |-> from + k - 1]]

\* Lines 390-391: the clause is added again and its old copy freed
ReaddOne(P, old, it1) ==
    [FreeRange(P, it1, it1) EXCEPT !.S = addClauseInt(@, old[it1].lits, TRUE, NoStats, TRUE)]

\* Lines 383-400: the loop. After the inner loop has freed the rest, it1
\* is at the end and the it1++ of the outer loop moves it past the end:
\* the outer loop then reads beyond the array.
RECURSIVE ReaddLoop(_, _, _, _, _)
RECURSIVE ReaddNext(_, _, _, _, _)
ReaddLoop(P, old, it1, kept, toRemove) ==
    IF it1 = Len(old) + 1 THEN [P EXCEPT !.removedLearnts = kept]
    ELSE IF it1 > Len(old) + 1 THEN [P EXCEPT !.removedLearnts = kept, !.fs.pastEnd = TRUE]
    ELSE IF toRemove > 0 THEN ReaddLoop(FreeRange(P, it1, it1), old, it1 + 1, kept, toRemove - 1)
    ELSE ReaddNext(ReaddOne(P, old, it1), old, it1, kept, toRemove)

ReaddNext(P, old, it1, kept, toRemove) ==
    IF ~P.S.ok
    THEN ReaddLoop(FreeRange(P, it1 + 1, Len(old)), old, Len(old) + 2,
                   IF P.S.ret # -1 THEN Append(kept, [lits |-> P.S.arena[P.S.ret].lits,
                                                      off |-> P.S.ret])
                   ELSE kept, toRemove)
    ELSE ReaddLoop(P, old, it1 + 1,
                   IF P.S.ret # -1 THEN Append(kept, [lits |-> P.S.arena[P.S.ret].lits,
                                                      off |-> P.S.ret])
                   ELSE kept, toRemove)

\* Lines 377-379
ToRemove(n) == IF n > MAX_OLD_LEARNTS THEN n - (MAX_OLD_LEARNTS \div 4) ELSE 0

readdRemovedLearnts(P) ==
    ReturnOk(ReaddLoop(P,
                       IF ToRemove(Len(P.removedLearnts)) > 0
                       THEN SortBySize(P.removedLearnts, Len(P.removedLearnts))
                       ELSE P.removedLearnts,
                       1, << >>, ToRemove(Len(P.removedLearnts))))

\* Lines 360-365
RECURSIVE removeOldLearnts(_, _)
removeOldLearnts(P, i) ==
    IF i > Len(P.removedLearnts) THEN P
    ELSE removeOldLearnts([P EXCEPT !.S = detachClause(@, P.removedLearnts[i].off)], i + 1)

\* ------------------------------------------------------------------------
\* FailedVarSearcher::search(numProps), with the picks of orderLits
\* ------------------------------------------------------------------------
\* order_heap.filter(VarFilter): the unassigned variables stay
RECURSIVE FilterHeap(_, _)
FilterHeap(heap, asg) ==
    IF heap = << >> THEN << >>
    ELSE IF asg[Head(heap)] = "U" THEN <<Head(heap)>> \o FilterHeap(Tail(heap), asg)
    ELSE FilterHeap(Tail(heap), asg)

\* Lines 130-136: what is saved at entry
Backup(P) == [order_heap |-> P.order_heap, polarity |-> P.polarity,
              activity |-> P.activity, var_inc |-> P.var_inc]

\* Line 146: the value of std::max is computed and thrown away, so the
\* multiplier keeps its value when the last call was productive
Productive(P) ==
    \/ P.fv.lastTimeFoundTruths > 500
    \/ 100 * P.fv.lastTimeFoundTruths > 3 * Len(P.order_heap)

NextMultiplier(P) == IF Productive(P) THEN P.fv.numPropsMultiplier ELSE 10

\* Line 148, the multiplier being in tenths
Budget(numProps, multiplier) == (numProps * multiplier) \div 10

\* Lines 140-182
SearchStart(P, numProps) ==
    [P EXCEPT !.fs.numFailed = 0, !.fs.goodBothSame = 0,
              !.fv.numCalls = @ + 1,
              !.fv.numPropsMultiplier = NextMultiplier(P),
              !.fv.origTrailSize = Len(P.S.trail),
              !.fs.numProps = Budget(numProps, NextMultiplier(P)),
              !.fs.bothSame = << >>, !.fs.bothInvert = 0,
              !.fs.binClauseAdded = 0, !.fs.propagatedVars = << >>,
              !.fs.hyperbinProps = 0]

\* Lines 188-205: the loop over the variables
RECURSIVE SearchLoop(_, _, _)
RECURSIVE SearchNext(_, _, _)
SearchLoop(P, var, origProps) ==
    IF var >= NumVars(P) THEN P
    ELSE IF P.S.assigns[var] # "U" THEN SearchLoop(P, var + 1, origProps)
    ELSE IF P.propagations - origProps >= P.fs.numProps
         THEN [P EXCEPT !.fv.finishedLastTimeVar = FALSE, !.fv.lastTimeWentUntilVar = var]
    ELSE SearchNext(tryBoth([P EXCEPT !.fs.probed = Append(@, var)],
                            MkLit(var, FALSE), MkLit(var, TRUE)),
                    var, origProps)

SearchNext(P, var, origProps) ==
    IF ~P.ret THEN P ELSE SearchLoop(P, var + 1, origProps)

FromVar_Zero(P) == 0

\* Lines 188-192
FromVar(P) ==
    IF P.fv.finishedLastTimeVar \/ P.fv.lastTimeWentUntilVar >= NumVars(P)
    THEN 0 ELSE P.fv.lastTimeWentUntilVar

\* Lines 185-194: the state the loop starts in; maxHyperBinProps is a
\* whole number, a fifth of the budget
LoopEntry(P) ==
    [P EXCEPT !.fs.maxHyperBinProps = (2 * P.fs.numProps) \div 10,
              !.fs.fromVar = FromVar(P),
              !.fv.finishedLastTimeVar = TRUE,
              !.fv.lastTimeWentUntilVar = NumVars(P)]

SearchVars(P) == SearchLoop(LoopEntry(P), FromVar(P), P.propagations)

\* Lines 258-265: the cleaning after new facts
SearchClean(P) ==
    IF P.S.ok /\ (P.fs.numFailed > 0 \/ P.fs.goodBothSame > 0)
    THEN [P EXCEPT !.S = removeAndCleanAll(@)] ELSE P

\* Lines 271-277
SearchRemoveOld(P) ==
    IF P.S.ok /\ P.readdOldLearnts THEN removeOldLearnts(P, 1) ELSE P

\* Lines 279-289: the saved state comes back
SearchRestore(P, B) ==
    [P EXCEPT !.fv.lastTimeFoundTruths = Len(P.S.trail) - P.fv.origTrailSize,
              !.var_inc = B.var_inc,
              !.activity = B.activity,
              !.order_heap = FilterHeap(B.order_heap, P.S.assigns),
              !.polarity = B.polarity,
              !.ret = P.S.ok]

\* Lines 251-289: from the label end on
SearchEnd(P, B) ==
    SearchRestore(
        SearchRemoveOld(SearchClean([P EXCEPT !.order_heap = FilterHeap(@, P.S.assigns)])),
        B)

\* Lines 184-205: orderLits returning false leaves search at once
SearchOrdered(P, B) ==
    IF ~P.ret THEN P ELSE SearchEnd(SearchVars(P), B)

SearchProbe(P, B, picks) ==
    IF P.addExtraBins THEN SearchOrdered(orderLits(P, picks), B)
    ELSE SearchEnd(SearchVars(P), B)

\* Line 137
SearchReadded(P, B, numProps, picks) ==
    IF ~P.ret THEN SearchEnd(P, B)
    ELSE SearchProbe(SearchStart(P, numProps), B, picks)

search(P, numProps, picks) ==
    SearchReadded(IF P.readdOldLearnts THEN readdRemovedLearnts(P)
                  ELSE [P EXCEPT !.ret = TRUE],
                  Backup(P), numProps, picks)

\* ------------------------------------------------------------------------
\* FailedVarSearcher::removeUslessBinFull, removeUselessBinaries,
\* fillBinImpliesMinusLast, removeBin
\* ------------------------------------------------------------------------
\* Lines 765-782: the binary (lit1 or lit2) leaves the database; the
\* assertion fails when there is none
HasBin(S, lit1, lit2) ==
    \E k \in 1..Len(S.watches[lit1]) : S.watches[lit1][k] = WBin(lit2, FALSE)

removeBin(P, lit1, lit2) ==
    IF HasBin(P.S, lit1, lit2)
    THEN [P EXCEPT !.S = detachBinClause(@, lit1, lit2),
                   !.fs.removedUselessBin = @ + 1]
    ELSE [P EXCEPT !.fs.asserted = FALSE]

\* Lines 694-701: the literals above the decision that are one hop away
\* from the first literal are wrong
RECURSIVE FillWrong(_, _, _)
FillWrong(P, c, low) ==
    IF c <= low THEN P
    ELSE FillWrong(IF P.S.trail[c] \in P.fs.setOneHop
                   THEN [P EXCEPT !.fs.wrong = Append(@, P.S.trail[c]),
                                  !.fs.setOneHop = @ \ {P.S.trail[c]}]
                   ELSE P,
                   c - 1, low)

\* Lines 686-704, given the binary propagation P1 of lit
FillBinImpliesAfter(P1, origLit) ==
    IF P1.S.confl THEN [P1 EXCEPT !.ret = FALSE]
    ELSE [cancelUntil(IF P1.S.assigns[LitVar(origLit)] = "U"
                      THEN FillWrong(P1, Len(P1.S.trail), P1.lim[1] + 1)
                      ELSE P1)
             EXCEPT !.ret = TRUE]

fillBinImpliesMinusLast(P, origLit, lit) ==
    FillBinImpliesAfter(probePropagateBin(Decide(P, lit), Len(P.S.trail) + 1), origLit)

\* Lines 745-752: every literal one hop away is propagated on its own
RECURSIVE FillLoop(_, _, _, _)
RECURSIVE FillNext(_, _, _, _)
FillLoop(P, lit, oneHopAway, i) ==
    IF i > Len(oneHopAway) THEN P
    ELSE FillNext(fillBinImpliesMinusLast(P, lit, oneHopAway[i]), lit, oneHopAway, i)

FillNext(P, lit, oneHopAway, i) ==
    IF ~P.ret THEN [P EXCEPT !.fs.setOneHop = @ \ {oneHopAway[i]}]
    ELSE FillLoop(P, lit, oneHopAway, i + 1)

\* Lines 754-756: one binary goes for every wrong literal, the i-th of
\* them being the one to the i-th literal one hop away
RECURSIVE RemoveWrong(_, _, _, _)
RemoveWrong(P, lit, oneHopAway, i) ==
    IF i > Len(P.fs.wrong) THEN P
    ELSE IF i > Len(oneHopAway) THEN [P EXCEPT !.fs.pastEnd = TRUE]
    ELSE RemoveWrong(removeBin(P, Neg(lit), oneHopAway[i]), lit, oneHopAway, i + 1)

\* Lines 754-762
RemoveUselessEnd(P, lit, oneHopAway) ==
    IF ~P.ret THEN P
    ELSE [RemoveWrong(P, lit, oneHopAway, 1)
             EXCEPT !.fs.setOneHop = @ \ SeqToSet(oneHopAway),
                    !.ret = TRUE]

\* Lines 736-743: the literals above the decision, from the top down
OneHopAway(P1) == TopDown(P1.S.trail, Len(P1.S.trail), P1.lim[1] + 2)

\* Lines 728-762, given the one-level propagation P1 of lit
RemoveUselessAfter(P1, lit) ==
    IF P1.S.confl THEN [P1 EXCEPT !.ret = FALSE]
    ELSE RemoveUselessEnd(
             FillLoop([cancelUntil(P1) EXCEPT !.fs.setOneHop = @ \cup SeqToSet(OneHopAway(P1)),
                                              !.fs.wrong = << >>],
                      lit, OneHopAway(P1), 1),
             lit, OneHopAway(P1))

removeUselessBinaries(P, lit) ==
    RemoveUselessAfter(probePropagateBinOneLevel(Decide(P, lit), Len(P.S.trail) + 1), lit)

\* Lines 421-428 and 431-438: the literal failed, so its negation holds
FixLiteral(P, lit) ==
    EnqueueAndPropagate([cancelUntil(P) EXCEPT !.fs.fixed = TRUE], Neg(lit))

\* Lines 416-441: the loop over the variables
RECURSIVE UselessLoop(_, _)
RECURSIVE UselessFixed(_, _)
RECURSIVE UselessSecond(_, _)
RECURSIVE UselessFirst(_, _)
UselessLoop(P, var) ==
    IF var >= NumVars(P) THEN
        [P EXCEPT !.order_heap = IF P.fs.fixed THEN FilterHeap(@, P.S.assigns) ELSE @,
                  !.ret = TRUE]
    ELSE IF P.S.assigns[var] # "U" THEN UselessLoop(P, var + 1)
    ELSE UselessFirst(removeUselessBinaries(P, MkLit(var, FALSE)), var)

UselessFixed(P, var) ==
    IF ~P.S.ok THEN [P EXCEPT !.ret = FALSE] ELSE UselessLoop(P, var + 1)

UselessSecond(P, var) ==
    IF ~P.ret THEN UselessFixed(FixLiteral(P, MkLit(var, TRUE)), var)
    ELSE UselessLoop(P, var + 1)

UselessFirst(P, var) ==
    IF ~P.ret THEN UselessFixed(FixLiteral(P, MkLit(var, FALSE)), var)
    ELSE UselessSecond(removeUselessBinaries(P, MkLit(var, TRUE)), var)

removeUslessBinFull(P) ==
    UselessLoop([P EXCEPT !.fs.removedUselessBin = 0, !.fs.setOneHop = {},
                          !.fs.fixed = FALSE],
                0)


\* ------------------------------------------------------------------------
\* Probing as operations of the solver. newVar also gives the variable its
\* saved polarity, its activity and its place in the order heap.
\* ------------------------------------------------------------------------
ProbeNewVarUpTo(bound) ==
    /\ NewVarState(bound)
    /\ probing' = [probing EXCEPT
                      !.polarity = [v \in 0..nVars |-> IF v < nVars THEN @[v] ELSE TRUE],
                      !.activity = [v \in 0..nVars |-> IF v < nVars THEN @[v] ELSE 0],
                      !.order_heap = Append(@, nVars)]
    /\ UNCHANGED searcher

\* The solver takes over what the call left
InstallProbe(P, call) ==
    /\ Install(P.S)
    /\ replaceTable' = P.table
    /\ probing' = [lim |-> P.lim, polarity |-> P.polarity, activity |-> P.activity,
                   var_inc |-> P.var_inc, order_heap |-> P.order_heap,
                   propagations |-> P.propagations,
                   removedLearnts |-> P.removedLearnts,
                   addExtraBins |-> P.addExtraBins,
                   readdOldLearnts |-> P.readdOldLearnts]
    /\ searcher' = [P.fv EXCEPT !.probed = P.fs.probed]
    /\ lastCall' = call
    /\ lastRet' = ToString(P.ret)
    /\ UNCHANGED <<mapVars, blockedClauses, conf, solveVars, osVars, assumeVars>>

\* search is called at decision level 0 on a solver that is ok
CanSearch(maxCalls) ==
    /\ pc = "idle"
    /\ ok
    /\ probing.lim = << >>
    /\ searcher.numCalls < maxCalls

SearchWith(budgets, pickSets, maxCalls) ==
    /\ CanSearch(maxCalls)
    /\ \E numProps \in budgets, picks \in pickSets :
        /\ \A i \in 1..Len(picks) : LitVar(picks[i]) < nVars
        /\ \E P \in {search(ProbeState, numProps, picks)} : InstallProbe(P, "search")

\* The options are set before the first variable
ProbeInitWith(addExtraBins, readdOldLearnts) ==
    /\ ok = TRUE
    /\ nVars = 0
    /\ assigns = << >>
    /\ trail = << >>
    /\ watches = << >>
    /\ clAllocator = << >>
    /\ longIrredCls = << >>
    /\ longRedCls = << >>
    /\ irredLits = 0 /\ redLits = 0
    /\ irredBins = 0 /\ redBins = 0
    /\ irredTris = 0 /\ redTris = 0
    /\ outerToInterMain = << >>
    /\ interToOuterMain = << >>
    /\ replaceTable = << >>
    /\ blockedClauses = << >>
    /\ conf \in Configurations
    /\ needToInterrupt = FALSE
    /\ numSimplify = 0
    /\ numConflicts = 0
    /\ simplified = FALSE
    /\ searched = FALSE
    /\ numRenumber = 0
    /\ pc = "idle"
    /\ status = "l_Undef"
    /\ lastCall = "none"
    /\ lastRet = "none"
    /\ os = << >>
    /\ dumpMaxSize = 0
    /\ assumptions = << >>
    /\ solveArg = NoArgument
    /\ searchAssumptions = << >>
    /\ probing \in { [NoProbing EXCEPT !.addExtraBins = a, !.readdOldLearnts = r] :
                       a \in addExtraBins, r \in readdOldLearnts }
    /\ searcher = NewSearcher

\* ------------------------------------------------------------------------
\* Failed-literal probing on three variables
\* ------------------------------------------------------------------------
MaxProbeVars == 3

MaxProbeDbSize == 4

MaxProbeCalls == 2

ProbeInputClauses ==
    { <<1, 2>>, <<0, 2>>, <<1, 3>>, <<0, 4>>, <<0, 5>>, <<1, 3, 4>> }

\* What search is called with, and what orderLits draws
ProbeBudgets == { 1, 100 }

ProbePicks == { << >>, <<0>>, <<2, 0>> }

ProbeInit == ProbeInitWith(BOOLEAN, {FALSE})

ProbeNewVar == ProbeNewVarUpTo(MaxProbeVars)

ProbeAddClause == AddClauseFrom(ProbeInputClauses, MaxProbeDbSize)

Search == SearchWith(ProbeBudgets, ProbePicks, MaxProbeCalls)

ProbeNext ==
    \/ ProbeNewVar
    \/ ProbeAddClause
    \/ Search

SpecProbe == ProbeInit /\ [][ProbeNext]_vars


\* ------------------------------------------------------------------------
\* Useless-binary removal on binaries over three variables
\* ------------------------------------------------------------------------
MaxUselessDbSize == 4

MaxUselessProps == 12

UselessInputClauses ==
    { <<1, 4>>, <<1, 2>>, <<3, 4>>, <<1, 3>>, <<0, 5>>, <<2, 5>> }

\* removeUslessBinFull is called at decision level 0, on a solver that is
\* ok and holds no learnt clause
CanRemoveUseless ==
    /\ pc = "idle"
    /\ ok
    /\ probing.lim = << >>
    /\ redBins = 0 /\ redTris = 0 /\ longRedCls = << >>
    /\ probing.propagations < MaxUselessProps

UselessAddClause == AddClauseFrom(UselessInputClauses, MaxUselessDbSize)

RemoveUslessBinFull ==
    /\ CanRemoveUseless
    /\ \E P \in {removeUslessBinFull(ProbeState)} : InstallProbe(P, "removeUslessBinFull")

UselessNext ==
    \/ ProbeNewVar
    \/ UselessAddClause
    \/ RemoveUslessBinFull

SpecUseless == ProbeInit /\ [][UselessNext]_vars


\* ------------------------------------------------------------------------
\* Probing with readdOldLearnts: learnt clauses that reduceDB removed are
\* kept in removedLearnts and added again for the time of the search
\* ------------------------------------------------------------------------
MaxReaddDbSize == 3

MaxRemovedLearnts == 3

MaxReaddCalls == 1

ReaddInputClauses == { <<1>>, <<3>>, <<0, 3>>, <<1, 2>> }

OldLearntClauses == { <<0, 2>>, <<0, 2, 4>>, <<3, 4>> }

ReaddBudgets == { 100 }

ReaddPicks == { << >> }

ReaddInit == ProbeInitWith({FALSE}, {TRUE})

ReaddAddClause == AddClauseFrom(ReaddInputClauses, MaxReaddDbSize)

\* The old reduceDB keeps a learnt clause it removes
KeepOldLearnt ==
    /\ pc = "idle"
    /\ probing.readdOldLearnts
    /\ Len(probing.removedLearnts) < MaxRemovedLearnts
    /\ \E lits \in OldLearntClauses :
        /\ Declared(lits)
        /\ probing' = [probing EXCEPT !.removedLearnts = Append(@, OldLearnt(lits))]
    /\ UNCHANGED <<dbVars, mapVars, auxVars, solveVars, lastCall, lastRet, osVars,
                   assumeVars, searcher>>

ReaddSearch == SearchWith(ReaddBudgets, ReaddPicks, MaxReaddCalls)

ReaddOpNext ==
    \/ ProbeNewVar
    \/ ReaddAddClause
    \/ KeepOldLearnt
    \/ ReaddSearch

SpecReadd == ReaddInit /\ [][ReaddOpNext]_vars


\* ------------------------------------------------------------------------
\* Probing on six variables. x1 and x5 are each equivalent to a helper (x2
\* and x6) by two binaries; ternaries over a variable and its helper make
\* x3 and x4 follow x1, x3 follow x5 and x4 follow the negation of x5.
\* Unit propagation of x3 or x4 alone sets nothing. The clauses are added
\* in the order of the list.
\* ------------------------------------------------------------------------
MaxEquivVars == 6

MaxEquivCalls == 2

EquivInputClauses ==
    << <<1, 2>>, <<0, 3>>, <<1, 3, 4>>, <<0, 2, 5>>, <<1, 3, 6>>, <<0, 2, 7>>,
       <<9, 10>>, <<8, 11>>, <<4, 9, 11>>, <<5, 8, 10>>, <<7, 9, 11>>, <<6, 8, 10>> >>

EquivBudgets == { 1, 100 }

EquivPicks == { << >> }

EquivInit == ProbeInitWith({FALSE}, {FALSE})

EquivNewVar == ProbeNewVarUpTo(MaxEquivVars)

\* The next clause of the list is the one after those in the database
EquivAddClause ==
    /\ irredBins + irredTris < Len(EquivInputClauses)
    /\ AddClauseFrom({EquivInputClauses[irredBins + irredTris + 1]},
                     Len(EquivInputClauses) + MaxEquivVars)

EquivSearch == SearchWith(EquivBudgets, EquivPicks, MaxEquivCalls)

EquivNext ==
    \/ EquivNewVar
    \/ EquivAddClause
    \/ EquivSearch

SpecEquiv == EquivInit /\ [][EquivNext]_vars


\* ------------------------------------------------------------------------
\* Consecutive calls of search on a satisfiable formula over three
\* variables
\* ------------------------------------------------------------------------
MaxScheduleVars == 3

MaxScheduleDbSize == 3

MaxScheduleCalls == 5

ScheduleInputClauses == { <<1, 2>>, <<0, 2>>, <<3, 4>> }

ScheduleBudgets == { 1, 100 }

SchedulePicks == { << >>, <<0>> }

ScheduleInit == ProbeInitWith(BOOLEAN, {FALSE})

ScheduleNewVar == ProbeNewVarUpTo(MaxScheduleVars)

ScheduleAddClause == AddClauseFrom(ScheduleInputClauses, MaxScheduleDbSize)

ScheduleSearch == SearchWith(ScheduleBudgets, SchedulePicks, MaxScheduleCalls)

ScheduleNext ==
    \/ ScheduleNewVar
    \/ ScheduleAddClause
    \/ ScheduleSearch

SpecSchedule == ScheduleInit /\ [][ScheduleNext]_vars


\* ========================================================================
\* Properties
\* ========================================================================
\* The watchers of one kind and learnt flag over all watch lists
WatchersOf(W, kind, learnt) ==
    UNION { { <<l, i>> : i \in { k \in 1..Len(W[l]) :
                                   W[l][k].t = kind /\ W[l][k].learnt = learnt } }
            : l \in DOMAIN W }

\* The number of copies of watcher w in the list of l
Copies(W, l, w) == Cardinality({ k \in 1..Len(W[l]) : W[l][k] = w })

countersVars == <<irredLits, redLits, irredBins, redBins, irredTris, redTris>>

storeVars == <<trail, assigns, watches, clAllocator, longIrredCls, longRedCls, countersVars>>

\* C1: when ok is false, addClause and addLearntClause return false and
\* leave trail, watch lists, clause lists and counters as they are, and solve
\* goes from its entry to its return with status l_False, running neither
\* simplifyProblem nor Searcher::solve, and returns l_False.
C1_NotOkShortCircuits ==
    [][ /\ (~ok /\ pc = "idle" /\ lastCall' \in {"addClause", "addLearntClause"})
            => (lastRet' = "FALSE" /\ UNCHANGED storeVars /\ ~ok')
        /\ (~ok /\ pc = "idle" /\ pc' # "idle")
            => (pc' = "loop" /\ status' = "l_False" /\ ~simplified' /\ ~searched')
        /\ (pc = "loop" /\ status = "l_False" /\ ~simplified /\ ~searched /\ pc' # pc)
            => (pc' = "finish" /\ status' = "l_False" /\ ~simplified' /\ ~searched'
                /\ UNCHANGED storeVars)
        /\ (pc \in {"loop", "finish"} /\ pc' = pc)
            => UNCHANGED <<status, simplified, searched, storeVars>>
        /\ (pc = "finish" /\ status = "l_False" /\ pc' # pc)
            => (pc' = "idle" /\ lastRet' = "l_False" /\ UNCHANGED storeVars)
      ]_vars

\* solve is about to return l_False without having simplified or searched
C1_Witness ==
    /\ ~ok
    /\ pc = "finish"
    /\ status = "l_False"
    /\ ~simplified
    /\ ~searched

AllFalse(lits) == \A i \in 1..Len(lits) : Value(Cur, lits[i]) = "F"

\* C2: in every state the solver reaches while ok, an addClause of a clause
\* all of whose literals are false at level 0 makes ok false and returns
\* false, and attaches nothing: watch lists, arena, clause lists and
\* counters stay as they are.
C2_AllFalseClauseUnsatAtAdd ==
    \A lits \in InputClauses :
        (ok /\ pc = "idle" /\ Declared(lits) /\ AllFalse(lits)) =>
            LET S == addClause(Cur, replaceTable, lits) IN
                /\ ~S.ok
                /\ S.watches = watches
                /\ S.arena = clAllocator
                /\ S.longIrredCls = longIrredCls
                /\ S.longRedCls = longRedCls
                /\ S.trail = trail
                /\ <<S.irredLits, S.redLits, S.irredBins, S.redBins, S.irredTris, S.redTris>>
                      = countersVars

\* addClause of unit not-x after unit x has returned false before any solve
C2_Witness ==
    /\ ~ok
    /\ lastCall = "addClause"
    /\ lastRet = "FALSE"
    /\ trail = <<0>>
    /\ numSimplify = 0
    /\ \A l \in DOMAIN watches : watches[l] = <<>>

\* C4: after every operation on the clause database the literal counters
\* equal what the stored clauses add up to.
C4_CountersMatchClauses ==
    /\ irredLits = 2 * irredBins + 3 * irredTris + SumSizes(clAllocator, longIrredCls)
    /\ redLits = 2 * redBins + 3 * redTris + SumSizes(clAllocator, longRedCls)

\* C5: every binary is two watchers and every ternary three, the copies
\* carry the same learnt flag, and the four counters count them.
C5_ImplicitWatchersMatchCounters ==
    /\ Cardinality(WatchersOf(watches, "bin", FALSE)) = 2 * irredBins
    /\ Cardinality(WatchersOf(watches, "bin", TRUE)) = 2 * redBins
    /\ Cardinality(WatchersOf(watches, "tri", FALSE)) = 3 * irredTris
    /\ Cardinality(WatchersOf(watches, "tri", TRUE)) = 3 * redTris
    /\ \A l \in DOMAIN watches : \A k \in 1..Len(watches[l]) :
        LET w == watches[l][k] IN
        /\ w.t = "bin" =>
              Copies(watches, l, w) = Copies(watches, w.lit1, WBin(l, w.learnt))
        /\ w.t = "tri" =>
              /\ w.lit1 < w.lit2
              /\ IF l < w.lit1
                 THEN /\ Copies(watches, l, w) = Copies(watches, w.lit1, WTri(l, w.lit2, w.learnt))
                      /\ Copies(watches, l, w) = Copies(watches, w.lit2, WTri(l, w.lit1, w.learnt))
                 ELSE Copies(watches, l, w)
                        = Copies(watches, w.lit1,
                                 WTri(IF l < w.lit2 THEN l ELSE w.lit2,
                                      IF l < w.lit2 THEN w.lit2 ELSE l, w.learnt))

\* subsumeAndStrengthenImplicit has returned with an irredundant binary
\* left, no learnt binary and no ternary: the state a sweep leaves after
\* removing subsumed ternaries and duplicate binaries
C5_Witness ==
    /\ lastCall = "subsumeAndStrengthenImplicit"
    /\ ok
    /\ irredBins = 1 /\ redBins = 0 /\ irredTris = 0 /\ redTris = 0
    /\ Len(watches[0]) = 1 /\ watches[0][1] = WBin(2, FALSE)


\* C3: once the interrupt flag is set while solve runs, solve returns.
C3_InterruptedSolveReturns ==
    (needToInterrupt /\ pc # "idle") ~> (pc = "idle")

AllWatchers(W) == UNION { { <<l, i>> : i \in 1..Len(W[l]) } : l \in DOMAIN W }

LitsOf(lits) == { lits[i] : i \in 1..Len(lits) }

\* What addClauseInt is to do with lits in the current state: nothing when
\* satisfied or a tautology, else store the distinct literals not false
Satisfied(lits) == \E l \in LitsOf(lits) : Value(Cur, l) = "T"

Tautology(lits) == \E l \in LitsOf(lits) : Neg(l) \in LitsOf(lits)

Remaining(lits) == { l \in LitsOf(lits) : Value(Cur, l) = "U" }

SameCounters(S) ==
    <<S.irredLits, S.redLits, S.irredBins, S.redBins, S.irredTris, S.redTris>> = countersVars

\* C6: addClauseInt adds nothing for a satisfied or tautological clause;
\* otherwise, with the duplicates and the false literals dropped, no literal
\* left unsets ok, one is enqueued and not stored, two or three become
\* watchers only (NULL is returned), four or more become exactly one arena
\* clause, which is returned.
C6_AddClauseIntByLength ==
    \A lits \in InputClauses, learnt \in BOOLEAN :
        (ok /\ pc = "idle" /\ Declared(lits)) =>
            LET S == addClauseInt(Cur, lits, learnt, NoStats, TRUE)
                rem == Remaining(lits)
                n == Cardinality(rem)
                implicitSame == /\ Cardinality(WatchersOf(S.watches, "bin", learnt))
                                     = Cardinality(WatchersOf(watches, "bin", learnt))
                                /\ Cardinality(WatchersOf(S.watches, "tri", learnt))
                                     = Cardinality(WatchersOf(watches, "tri", learnt))
            IN  IF Satisfied(lits) \/ Tautology(lits) THEN
                    /\ S = [Cur EXCEPT !.ret = -1]
                ELSE IF n = 0 THEN
                    /\ S = [Cur EXCEPT !.ok = FALSE, !.ret = -1]
                ELSE IF n = 1 THEN
                    /\ S.ret = -1
                    /\ Len(S.trail) > Len(trail)
                    /\ SubSeq(S.trail, 1, Len(trail)) = trail
                    /\ S.trail[Len(trail) + 1] \in rem
                    /\ S.arena = clAllocator
                    /\ S.watches = watches
                    /\ SameCounters(S)
                ELSE IF n = 2 THEN
                    /\ S.ret = -1
                    /\ S.ok /\ S.trail = trail /\ S.arena = clAllocator
                    /\ Cardinality(AllWatchers(S.watches)) = Cardinality(AllWatchers(watches)) + 2
                    /\ \A a \in rem : \A b \in rem \ {a} :
                          Copies(S.watches, a, WBin(b, learnt))
                            = Copies(watches, a, WBin(b, learnt)) + 1
                ELSE IF n = 3 THEN
                    /\ S.ret = -1
                    /\ S.ok /\ S.trail = trail /\ S.arena = clAllocator
                    /\ Cardinality(AllWatchers(S.watches)) = Cardinality(AllWatchers(watches)) + 3
                    /\ Cardinality(WatchersOf(S.watches, "tri", learnt))
                         = Cardinality(WatchersOf(watches, "tri", learnt)) + 3
                    /\ \A a \in rem :
                          \E w \in { S.watches[a][k] : k \in 1..Len(S.watches[a]) } :
                              w.t = "tri" /\ {w.lit1, w.lit2} = rem \ {a} /\ w.learnt = learnt
                ELSE
                    /\ S.ret = Len(clAllocator) + 1
                    /\ Len(S.arena) = Len(clAllocator) + 1
                    /\ SubSeq(S.arena, 1, Len(clAllocator)) = clAllocator
                    /\ LitsOf(S.arena[S.ret].lits) = rem
                    /\ Len(S.arena[S.ret].lits) = n
                    /\ S.arena[S.ret].learnt = learnt
                    /\ S.ok /\ S.trail = trail
                    /\ implicitSame
                    /\ Cardinality(WatchersOf(S.watches, "bin", ~learnt))
                         = Cardinality(WatchersOf(watches, "bin", ~learnt))
                    /\ Cardinality(WatchersOf(S.watches, "tri", ~learnt))
                         = Cardinality(WatchersOf(watches, "tri", ~learnt))

\* addClause has stored a unit on the trail, a ternary as three watchers
\* and a long clause in the arena
C6_Witness ==
    /\ lastCall = "addClause"
    /\ ok
    /\ Len(trail) = 1
    /\ irredTris = 1
    /\ Len(longIrredCls) = 1
    /\ Len(clAllocator) = 1


\* The DIMACS reader: comment and header lines are skipped, the numbers of
\* the other lines are read one after the other, every 0 ends a clause
RECURSIVE ClauseNumbers(_, _)
ClauseNumbers(lines, k) ==
    IF k > Len(lines) THEN << >>
    ELSE (IF lines[k].sec \in {"c", "p"} THEN << >> ELSE lines[k].toks)
         \o ClauseNumbers(lines, k + 1)

RECURSIVE SplitClauses(_, _)
SplitClauses(toks, cur) ==
    IF toks = << >> THEN (IF cur = {} THEN {} ELSE {cur})
    ELSE IF Head(toks) = 0 THEN {cur} \cup SplitClauses(Tail(toks), {})
    ELSE SplitClauses(Tail(toks), cur \cup {Head(toks)})

ParseDimacs(lines) == SplitClauses(ClauseNumbers(lines, 1), {})

Assignments == [0..(nVars - 1) -> BOOLEAN]

LitTrue(m, l) == m[LitVar(l)] = (LitSign(l) = 0)

DimacsTrue(m, d) == IF d > 0 THEN m[d - 1] ELSE ~m[(0 - d) - 1]

SatisfiesDimacs(m, cls) == \A c \in cls : \E d \in c : DimacsTrue(m, d)

\* m satisfies the irredundant formula the solver holds: the units of the
\* trail, the equivalences of the replace table, the irredundant binaries,
\* ternaries and long clauses, and the blocked clauses
SatisfiesIrred(m) ==
    /\ \A i \in 1..Len(trail) : LitTrue(m, trail[i])
    /\ \A v \in DOMAIN replaceTable : LitTrue(m, replaceTable[v]) = m[v]
    /\ \A l \in DOMAIN watches : \A k \in 1..Len(watches[l]) :
          LET w == watches[l][k] IN
          /\ (w.t = "bin" /\ ~w.learnt) => (LitTrue(m, l) \/ LitTrue(m, w.lit1))
          /\ (w.t = "tri" /\ ~w.learnt) =>
                (LitTrue(m, l) \/ LitTrue(m, w.lit1) \/ LitTrue(m, w.lit2))
    /\ \A k \in 1..Len(longIrredCls) :
          \E i \in 1..Len(clAllocator[longIrredCls[k]].lits) :
              LitTrue(m, clAllocator[longIrredCls[k]].lits[i])
    /\ \A k \in 1..Len(blockedClauses) :
          \E i \in 1..Len(blockedClauses[k].lits) : LitTrue(m, blockedClauses[k].lits[i])

\* C7: the output of dumpIrredClauses, read back, has the verdict of the
\* formula the solver holds, and each of its models satisfies that formula.
C7_DumpIrredRoundTrip ==
    (lastCall = "dumpIrredClauses" /\ ok) =>
        /\ \A m \in Assignments : SatisfiesDimacs(m, ParseDimacs(os)) => SatisfiesIrred(m)
        /\ (\E m \in Assignments : SatisfiesDimacs(m, ParseDimacs(os)))
             <=> (\E m \in Assignments : SatisfiesIrred(m))

\* C8: every clause line of a dump ends with the terminator 0.
C8_ClauseLinesEndWithZero ==
    \A k \in 1..Len(os) :
        os[k].sec \notin {"c", "p"} =>
            (Len(os[k].toks) > 0 /\ os[k].toks[Len(os[k].toks)] = 0)

\* C9: every long clause line of dumpLearnts is a learnt clause of
\* longRedCls of size at most maxSize, and no clause of longIrredCls.
C9_DumpLearntsLongAreLearnt ==
    lastCall = "dumpLearnts" =>
        \A k \in 1..Len(os) :
            os[k].sec = "long" =>
                /\ \E j \in 1..Len(longRedCls) :
                      /\ clAllocator[longRedCls[j]].learnt
                      /\ ClauseLine("long", clAllocator[longRedCls[j]].lits) = os[k]
                      /\ Len(clAllocator[longRedCls[j]].lits) <= dumpMaxSize
                /\ ~\E j \in 1..Len(longIrredCls) :
                      ClauseLine("long", clAllocator[longIrredCls[j]].lits) = os[k]


\* C10: outerToInterMain and interToOuterMain are permutations of
\* 0..nVars-1 and each is the inverse of the other.
C10_MapsMutuallyInverse ==
    \A v \in 0..(nVars - 1) :
        /\ outerToInterMain[v] \in 0..(nVars - 1)
        /\ interToOuterMain[v] \in 0..(nVars - 1)
        /\ interToOuterMain[outerToInterMain[v]] = v
        /\ outerToInterMain[interToOuterMain[v]] = v


\* C11: a unit clause handed to addClause on outer variable v, while the
\* internal variable outerToInterMain[v] is unassigned, assigns the internal
\* variable outerToInterMain[v] so that the literal is true.
C11_AddClauseMapsOuterToInner ==
    \A lits \in RenumberInputClauses :
        (/\ ok /\ pc = "idle"
         /\ Len(lits) = 1 /\ Declared(lits)
         /\ outerToInterMain[LitVar(lits[1])] \in 0..(nVars - 1)
         /\ assigns[outerToInterMain[LitVar(lits[1])]] = "U")
        => LET S == addClause(Cur, replaceTable, lits)
               target == outerToInterMain[LitVar(lits[1])]
           IN  /\ S.ok
               /\ Value(S, MkLit(target, LitSign(lits[1]) = 1)) = "T"


\* The clause database, the trail and the tables of G, the watch lists as
\* bags
SameWatches(W1, W2) ==
    /\ DOMAIN W1 = DOMAIN W2
    /\ \A l \in DOMAIN W1 :
          /\ Len(W1[l]) = Len(W2[l])
          /\ \A k \in 1..Len(W1[l]) : Copies(W1, l, W1[l][k]) = Copies(W2, l, W1[l][k])

SameDatabase(G1, G2) ==
    /\ SameWatches(G1.S.watches, G2.S.watches)
    /\ G1.S.ok = G2.S.ok
    /\ G1.S.trail = G2.S.trail
    /\ G1.S.assigns = G2.S.assigns
    /\ G1.S.arena = G2.S.arena
    /\ G1.S.longIrredCls = G2.S.longIrredCls
    /\ G1.S.longRedCls = G2.S.longRedCls
    /\ G1.S.irredLits = G2.S.irredLits /\ G1.S.redLits = G2.S.redLits
    /\ G1.S.irredBins = G2.S.irredBins /\ G1.S.redBins = G2.S.redBins
    /\ G1.S.irredTris = G2.S.irredTris /\ G1.S.redTris = G2.S.redTris
    /\ G1.replaceTable = G2.replaceTable
    /\ G1.outerToInterMain = G2.outerToInterMain
    /\ G1.interToOuterMain = G2.interToOuterMain

\* simplifyProblem with its renumbering, on G
SimplifiedOnce(G, nSimp) ==
    simplifyRenumber(G, simplifyProblem(G.S, conf, nSimp, nVars, FALSE, "none"), conf, nVars)

\* G1 is what one call left: a second call leaves the same
SecondCallChangesNothing(G1, nSimp) ==
    G1.S.ok => SameDatabase(G1, SimplifiedOnce(G1, nSimp))

\* C12: a second simplifyProblem right after a first one leaves the
\* binaries, ternaries, long clauses, learnt flags, trail, replacement table
\* and numbering as the first call left them.
C12_SecondSimplifyChangesNothing ==
    (pc = "idle" /\ ok /\ nVars > 0)
    => SecondCallChangesNothing(SimplifiedOnce(CurAll, numSimplify),
                                IF numSimplify >= 2 THEN 2 ELSE numSimplify + 1)


\* floor(ratio_remove_clauses * n)
RemoveFraction(cf, n) == (n * cf.ratioRemoveClauses[1]) \div cf.ratioRemoveClauses[2]

\* C13: reduceDB, called with N long learnt clauses, keeps
\* N - floor(ratio_remove_clauses * N) of them, with the pre-clean step and
\* without it.
C13_ReduceDBKeepsFraction ==
    pc = "idle" =>
        \A S \in reduceDB(Cur, conf, numConflicts) :
            Len(S.longRedCls) = Len(longRedCls) - RemoveFraction(conf, Len(longRedCls))

\* (glue, size) of x is lexicographically at most that of y, and likewise
\* for the two other orderings
RanksAtLeastAsWell(type, x, y) ==
    IF type = "glue"
        THEN x.glue < y.glue \/ (x.glue = y.glue /\ Len(x.lits) <= Len(y.lits))
    ELSE IF type = "size"
        THEN Len(x.lits) < Len(y.lits) \/ (Len(x.lits) = Len(y.lits) /\ x.glue <= y.glue)
    ELSE x.propConfl > y.propConfl
         \/ (x.propConfl = y.propConfl /\ Len(x.lits) <= Len(y.lits))

\* C14: without the pre-clean step, every long learnt clause reduceDB keeps
\* ranks at least as well under the configured ordering as every one it
\* removes.
C14_KeptRankAtLeastAsWell ==
    (pc = "idle" /\ ~conf.doPreClauseCleanPropAndConfl) =>
        \A S \in reduceDB(Cur, conf, numConflicts) :
            \A k \in SeqToSet(S.longRedCls) :
                \A r \in SeqToSet(longRedCls) \ SeqToSet(S.longRedCls) :
                    RanksAtLeastAsWell(conf.clauseCleaningType,
                                       clAllocator[k], clAllocator[r])

\* reduceDB under the activity-based ordering has freed a clause with fewer
\* props and conflicts than the one it kept
C14_Witness ==
    /\ lastCall = "reduceDB"
    /\ ~conf.doPreClauseCleanPropAndConfl
    /\ conf.clauseCleaningType = "propconfl"
    /\ Len(longRedCls) = 1
    /\ \E r \in 1..Len(clAllocator) :
          /\ clAllocator[r].freed
          /\ clAllocator[r].propConfl < clAllocator[longRedCls[1]].propConfl


\* What simplifyProblem returns and which passes it ran, R, agree with the
\* rule: a pass that returned false is the last one and the status is
\* l_False; the status is l_Undef only if every pass returned true
StopsAtFirstFalse(R) ==
    /\ \A i \in 1..Len(R.rets) :
          ~R.rets[i] => (i = Len(R.rets) /\ R.status = "l_False")
    /\ R.status = "l_Undef" => \A i \in 1..Len(R.rets) : R.rets[i]
    /\ R.status \in {"l_Undef", "l_False"}

\* C15: in simplifyProblem no pass runs after one that returned false, and
\* the call then returns l_False; it returns l_Undef only if every pass it
\* ran returned true.
C15_SimplifyStopsAtFirstFalse ==
    (pc = "idle" /\ ok /\ nVars > 0) =>
        \A fail \in ExternalPasses \cup {"none"} :
            StopsAtFirstFalse(simplifyProblem(Cur, conf, numSimplify, nVars,
                                              needToInterrupt, fail))

\* simplifyProblem has returned l_False on the four binaries over two
\* variables: its first pass, the implicit subsumption, returned false
C15_Witness ==
    /\ lastCall = "simplifyProblem"
    /\ lastRet = "l_False"
    /\ ~ok
    /\ irredBins = 4
    /\ numSimplify = 1


\* C16: a solve call given no assumptions list searches under the empty
\* assumption set.
C16_NoArgumentSearchesUnassumed ==
    (pc # "idle" /\ searched /\ ~solveArg.given) => searchAssumptions = << >>


\* The solver when subsumeAndStrengthenImplicit has swept every watch list
\* (line 2558), before the delayed enqueues and the delayed binaries
AfterSweeps ==
    ImplicitAllLits([S |-> Cur, toEnqueue |-> <<>>, binsToAdd |-> <<>>], 0, 2 * nVars)

\* The positions in the list of l of the binaries with partner p
BinCopies(W, l, p) == { k \in 1..Len(W[l]) : W[l][k].t = "bin" /\ W[l][k].lit1 = p }

\* In W no binary is attached twice, every binary has its two watchers with
\* one learnt flag, every binary of W0 is still there, and irredundant if one
\* of its copies in W0 was
NoDuplicateBins(W0, W) ==
    \A l \in DOMAIN W : \A p \in DOMAIN W :
        /\ Cardinality(BinCopies(W, l, p)) <= 1
        /\ Cardinality(BinCopies(W, l, p)) = Cardinality(BinCopies(W, p, l))
        /\ \A k \in BinCopies(W, l, p) : \A m \in BinCopies(W, p, l) :
              W[l][k].learnt = W[p][m].learnt
        /\ BinCopies(W0, l, p) # {} => BinCopies(W, l, p) # {}
        /\ (\E k \in BinCopies(W0, l, p) : ~W0[l][k].learnt)
              => (\A k \in BinCopies(W, l, p) : ~W[l][k].learnt)

\* C17: when subsumeAndStrengthenImplicit has swept all watch lists, no
\* binary is attached twice, both watchers of every removed duplicate are
\* gone, and the surviving copy is irredundant if any copy was.
C17_SweepRemovesDuplicateBins ==
    (pc = "idle" /\ ok /\ nVars > 0) => NoDuplicateBins(watches, AfterSweeps.S.watches)

\* An irredundant and a learnt copy of one binary are attached, and the
\* sweeps leave the irredundant copy alone
C17_Witness ==
    /\ pc = "idle" /\ ok /\ nVars > 0
    /\ \E l \in DOMAIN watches : \E p \in DOMAIN watches :
          /\ \E k \in BinCopies(watches, l, p) : watches[l][k].learnt
          /\ \E k \in BinCopies(watches, l, p) : ~watches[l][k].learnt
          /\ Cardinality(BinCopies(AfterSweeps.S.watches, l, p)) = 1
          /\ AfterSweeps.S.redBins = redBins - 1


\* The positions in the list of l of the ternaries with partners p and q
TriCopies(W, l, p, q) ==
    { k \in 1..Len(W[l]) : W[l][k].t = "tri" /\ W[l][k].lit1 = p /\ W[l][k].lit2 = q }

\* In W no ternary is attached twice or next to a binary on two of its
\* literals, and every ternary has its three watchers
NoSubsumedTris(W) ==
    \A l \in DOMAIN W : \A k \in 1..Len(W[l]) :
        W[l][k].t = "tri" =>
            LET p == W[l][k].lit1
                q == W[l][k].lit2
            IN  /\ Cardinality(TriCopies(W, l, p, q)) = 1
                /\ BinCopies(W, l, p) = {} /\ BinCopies(W, l, q) = {}
                /\ BinCopies(W, p, q) = {}
                /\ \E m \in 1..Len(W[p]) :
                      W[p][m].t = "tri" /\ {W[p][m].lit1, W[p][m].lit2} = {l, q}
                /\ \E m \in 1..Len(W[q]) :
                      W[q][m].t = "tri" /\ {W[q][m].lit1, W[q][m].lit2} = {l, p}

\* C18: when subsumeAndStrengthenImplicit has swept all watch lists, no
\* ternary is attached next to a binary on two of its literals, no ternary
\* is attached twice, and no ternary is left in only some of its three
\* lists.
C18_SweepRemovesSubsumedTris ==
    (pc = "idle" /\ ok /\ nVars > 0) => NoSubsumedTris(AfterSweeps.S.watches)

\* The whole of subsumeAndStrengthenImplicit on the current state
AfterImplicit == subsumeAndStrengthenImplicit(Cur, nVars)

\* In S the literal l is true and every binary of ~l has its partner true
SetAndPropagated(S, l) ==
    /\ Value(S, l) = "T"
    /\ \A k \in 1..Len(S.watches[Neg(l)]) :
          S.watches[Neg(l)][k].t = "bin" => Value(S, S.watches[Neg(l)][k].lit1) = "T"

\* C19: if the binaries (L or P) and (L or not-P) are both attached when
\* subsumeAndStrengthenImplicit starts, then when it returns either L is
\* true at level 0 and propagated, or ok is false.
C19_InvertedBinsSetLiteral ==
    (pc = "idle" /\ ok /\ nVars > 0) =>
        \E S \in {AfterImplicit} :
            \A l \in DOMAIN watches : \A p \in DOMAIN watches :
                (BinCopies(watches, l, p) # {} /\ BinCopies(watches, l, Neg(p)) # {})
                    => (~S.ok \/ SetAndPropagated(S, l))

\* Both binaries are attached with L unassigned, and the call returns true
\* with L set
C19_Witness ==
    /\ pc = "idle" /\ ok /\ nVars > 0
    /\ \E S \in {AfterImplicit} :
          \E l \in DOMAIN watches : \E p \in DOMAIN watches :
              /\ BinCopies(watches, l, p) # {} /\ BinCopies(watches, l, Neg(p)) # {}
              /\ Value(Cur, l) = "U"
              /\ S.ok /\ SetAndPropagated(S, l)

\* The list of l in W holds a ternary with the partners p and q and the
\* given learnt flag
TriAt(W, l, p, q, learnt) ==
    \E k \in 1..Len(W[l]) :
        W[l][k].t = "tri" /\ {W[l][k].lit1, W[l][k].lit2} = {p, q} /\ W[l][k].learnt = learnt

\* The ternary has a watcher in one of its three lists
TriAnywhere(W, l, p, q, learnt) ==
    TriAt(W, l, p, q, learnt) \/ TriAt(W, p, l, q, learnt) \/ TriAt(W, q, l, p, learnt)

\* A binary (~l or p) or (~l or q) is attached
BinOnNegation(W, l, p, q) ==
    BinCopies(W, Neg(l), p) # {} \/ BinCopies(W, Neg(l), q) # {}

\* A binary (~l or ~p) or (~l or ~q) is attached
BinOnNegations(W, l, p, q) ==
    BinCopies(W, Neg(l), Neg(p)) # {} \/ BinCopies(W, Neg(l), Neg(q)) # {}

\* The binaries scheduled for addition
Scheduled(R) == { R.binsToAdd[i] : i \in DOMAIN R.binsToAdd }

\* The sweep of the list of l alone, from the current state
AfterOneList(l) == ImplicitOneLit([S |-> Cur, toEnqueue |-> <<>>, binsToAdd |-> <<>>], l)

\* Every binary scheduled by the sweeps R comes from a ternary of W0 that
\* had a binary on the negation of its first literal and one of its other
\* literals, and that ternary is gone from its three lists
OnlyStrengthened(W0, R) ==
    \A e \in Scheduled(R) :
        \E l \in DOMAIN W0 :
            /\ TriAt(W0, l, e[1], e[2], e[3])
            /\ BinOnNegation(W0, l, e[1], e[2])
            /\ ~TriAnywhere(R.S.watches, l, e[1], e[2], e[3])

\* The sweep of one list: a list of fewer than two watchers is left alone;
\* in a longer one every ternary with a binary on ~l and one of its other
\* literals leaves its three lists, and its binary is scheduled unless the
\* subsumption sweep took the ternary first
OneListStrengthened(l) ==
    \E R \in {AfterOneList(l)} :
        IF Len(watches[l]) < 2 THEN R.S = Cur /\ R.binsToAdd = << >>
        ELSE \A k \in 1..Len(watches[l]) :
                \E w \in {watches[l][k]} :
                    (w.t = "tri" /\ BinOnNegation(watches, l, w.lit1, w.lit2)) =>
                        /\ ~TriAnywhere(R.S.watches, l, w.lit1, w.lit2, w.learnt)
                        /\ \/ <<w.lit1, w.lit2, w.learnt>> \in Scheduled(R)
                           \/ BinCopies(watches, l, w.lit1) # {}
                           \/ BinCopies(watches, l, w.lit2) # {}
                           \/ Cardinality(TriCopies(watches, l, w.lit1, w.lit2)) > 1

\* The scheduled binaries are attached when the call returns true with
\* both literals unassigned
ScheduledAdded(R, S) ==
    \A e \in Scheduled(R) :
        (S.ok /\ Value(S, e[1]) = "U" /\ Value(S, e[2]) = "U") =>
            \E k \in BinCopies(S.watches, e[1], e[2]) : S.watches[e[1]][k].learnt = e[3]

\* C20 (as the code has it): the strengthening sweep of the list of L, a
\* list of at least two watchers, removes a ternary (L or P or Q) from all
\* three watch lists and schedules the binary (P or Q) with the ternary's
\* learnt flag exactly when a binary (not-L or P) or (not-L or Q) is
\* attached; the scheduled binaries are added before the call returns.
C20_TernaryStrengthenedByBinOnNegation ==
    (pc = "idle" /\ ok /\ nVars > 0) =>
        /\ \E R \in {AfterSweeps} :
              /\ OnlyStrengthened(watches, R)
              /\ ScheduledAdded(R, ImplicitDelayed(R))
        /\ \A l \in DOMAIN watches : OneListStrengthened(l)

\* A learnt ternary and a binary on the negation of its first literal are
\* attached, and the call replaces the ternary by a learnt binary
C20_Witness ==
    /\ pc = "idle" /\ ok /\ nVars > 0
    /\ \E l \in DOMAIN watches : \E k \in 1..Len(watches[l]) :
          \E w \in {watches[l][k]} :
              /\ w.t = "tri" /\ w.learnt
              /\ BinCopies(watches, Neg(l), w.lit1) # {}
              /\ BinCopies(watches, l, w.lit1) = {} /\ BinCopies(watches, l, w.lit2) = {}
              /\ BinCopies(watches, w.lit1, w.lit2) = {}
              /\ \E S \in {AfterImplicit} :
                    /\ S.ok
                    /\ ~TriAnywhere(S.watches, l, w.lit1, w.lit2, TRUE)
                    /\ \E m \in BinCopies(S.watches, w.lit1, w.lit2) :
                          S.watches[w.lit1][m].learnt

\* C20 (as stated): the sweeps remove a ternary (L or P or Q) from all
\* three watch lists and schedule the binary (P or Q) with the ternary's
\* learnt flag if the binary (not-L or not-P) or (not-L or not-Q) is
\* attached, and for no other combination.
C20_TernaryStrengthenedByNegatedBin ==
    (pc = "idle" /\ ok /\ nVars > 0) =>
        \E R \in {AfterSweeps} :
            \A l \in DOMAIN watches : \A k \in 1..Len(watches[l]) :
                \E w \in {watches[l][k]} :
                    w.t = "tri" =>
                        (BinOnNegations(watches, l, w.lit1, w.lit2)
                            <=> (/\ ~TriAnywhere(R.S.watches, l, w.lit1, w.lit2, w.learnt)
                                 /\ <<w.lit1, w.lit2, w.learnt>> \in Scheduled(R)))

\* m satisfies the implicit and long clauses of S with the given learnt
\* flag
SatisfiesClauses(S, m, learnt) ==
    /\ \A l \in DOMAIN S.watches : \A k \in 1..Len(S.watches[l]) :
          \E w \in {S.watches[l][k]} :
              /\ (w.t = "bin" /\ w.learnt = learnt) =>
                    (LitTrue(m, l) \/ LitTrue(m, w.lit1))
              /\ (w.t = "tri" /\ w.learnt = learnt) =>
                    (LitTrue(m, l) \/ LitTrue(m, w.lit1) \/ LitTrue(m, w.lit2))
    /\ \A off \in LitsOf(IF learnt THEN S.longRedCls ELSE S.longIrredCls) :
          \E i \in 1..Len(S.arena[off].lits) : LitTrue(m, S.arena[off].lits[i])

\* The total assignments that satisfy the level-0 units and the irredundant
\* clauses of S; none when ok is false
IrredModels(S) ==
    IF ~S.ok THEN {}
    ELSE { m \in Assignments :
             /\ \A i \in 1..Len(S.trail) : LitTrue(m, S.trail[i])
             /\ SatisfiesClauses(S, m, FALSE) }

\* Every learnt clause of S is implied by its irredundant clauses
LearntImplied(S) == \A m \in IrredModels(S) : SatisfiesClauses(S, m, TRUE)

\* Every watch list is in the order of WatchSorter
WatchesSorted(W) == \A l \in DOMAIN W : SortWatches(W[l], Len(W[l])) = W[l]

\* C21: with every learnt clause implied by the irredundant ones and every
\* watch list sorted, the total assignments that satisfy the irredundant
\* clauses are the same before and after subsumeAndStrengthenImplicit.
C21_ImplicitKeepsIrredModels ==
    (pc = "idle" /\ ok /\ nVars > 0 /\ LearntImplied(Cur) /\ WatchesSorted(watches)) =>
        IrredModels(AfterImplicit) = IrredModels(Cur)

\* Every attached binary, ternary and long clause of S, irredundant or
\* learnt, has a literal that is true in the model
AllAttachedSatisfied(S, model) ==
    /\ \A l \in DOMAIN S.watches : \A k \in 1..Len(S.watches[l]) :
          \E w \in {S.watches[l][k]} :
              /\ w.t = "bin" =>
                    (modelValue(model, l) = "T" \/ modelValue(model, w.lit1) = "T")
              /\ w.t = "tri" =>
                    \/ modelValue(model, l) = "T"
                    \/ modelValue(model, w.lit1) = "T"
                    \/ modelValue(model, w.lit2) = "T"
    /\ \A off \in LitsOf(S.longIrredCls \o S.longRedCls) :
          \E j \in 1..Len(S.arena[off].lits) : modelValue(model, S.arena[off].lits[j]) = "T"

\* C30: verifyModel returns true only if every attached binary, ternary and
\* long clause, irredundant or learnt, has a literal that is true in the
\* model.
C30_VerifyModelRejectsFalsified ==
    (pc = "idle" /\ nVars > 0) =>
        \A model \in Models : verifyModel(Cur, model) => AllAttachedSatisfied(Cur, model)

\* ------------------------------------------------------------------------
\* Failed-literal probing
\* ------------------------------------------------------------------------
\* The states search can start its loop in when called with numProps and
\* drawing picks: none when orderLits fails
LoopEntries(numProps, picks) ==
    IF probing.addExtraBins
    THEN { LoopEntry(Q) : Q \in { Q \in {orderLits(SearchStart(ProbeState, numProps), picks)} :
                                      Q.ret } }
    ELSE { LoopEntry(SearchStart(ProbeState, numProps)) }

ValidPicks(pickSets) ==
    { picks \in pickSets : \A i \in 1..Len(picks) : LitVar(picks[i]) < nVars }

\* The variables the probe A set above level 0 of P to the value they
\* have in the probe B too
SameInBoth(P, A, B) ==
    { x \in DOMAIN P.S.assigns :
        /\ P.S.assigns[x] = "U"
        /\ A.S.assigns[x] # "U"
        /\ A.S.assigns[x] = B.S.assigns[x] }

\* A and B are the probes of v and of not-v in the call of tryBoth that
\* turns P into R
BothSameSet(P, A, B, R) ==
    (~A.S.confl /\ ~B.S.confl /\ R.ret) =>
        /\ R.lim = << >>
        /\ \A x \in SameInBoth(P, A, B) : R.S.assigns[x] = A.S.assigns[x]
        /\ R.fs.goodBothSame = P.fs.goodBothSame + Cardinality(SameInBoth(P, A, B))

FirstProbeOf(P, v) == Probe(TryBothStart(P), MkLit(v, FALSE))

SecondProbeOf(A, v) ==
    IF A.S.confl THEN A ELSE Probe(FirstProbe(A, MkLit(v, FALSE)), MkLit(v, TRUE))

TryBothOf(P, v) == tryBoth(P, MkLit(v, FALSE), MkLit(v, TRUE))

\* C22: when neither probe of tryBoth(v, not-v) conflicts and tryBoth
\* returns true, every variable that both probes set to one value has that
\* value at decision level 0, and the both-same rule enqueued exactly
\* these variables.
C22_BothSameEnqueued ==
    CanSearch(MaxProbeCalls) =>
        \A numProps \in ProbeBudgets, picks \in ValidPicks(ProbePicks) :
            \A P \in LoopEntries(numProps, picks) :
                \A v \in { v \in DOMAIN assigns : assigns[v] = "U" } :
                    \A A \in {FirstProbeOf(P, v)} :
                        \A B \in {SecondProbeOf(A, v)} :
                            BothSameSet(P, A, B, TryBothOf(P, v))

C22_Witness ==
    /\ CanSearch(MaxProbeCalls)
    /\ \E numProps \in ProbeBudgets, picks \in ValidPicks(ProbePicks) :
        \E P \in LoopEntries(numProps, picks) :
            \E v \in { v \in DOMAIN assigns : assigns[v] = "U" } :
                \E A \in {FirstProbeOf(P, v)} :
                    \E B \in {SecondProbeOf(A, v)} :
                        \E R \in {TryBothOf(P, v)} :
                            /\ ~A.S.confl /\ ~B.S.confl /\ R.ret
                            /\ SameInBoth(P, A, B) # {}
                            /\ BothSameSet(P, A, B, R)


\* The budget search works with when called with numProps
BudgetUsed(numProps, picks) == search(ProbeState, numProps, picks).fs.numProps

\* C23: the propagation budget search uses is strictly larger than the
\* numProps it was called with when the previous call was productive (more
\* than 500 new level-0 assignments, or more than 3% of the order-heap
\* size), and equals numProps otherwise.
C23_BudgetGrowsWhenProductive ==
    CanSearch(MaxProbeCalls) =>
        \A numProps \in ProbeBudgets, picks \in ValidPicks(ProbePicks) :
            IF Productive(ProbeState)
            THEN BudgetUsed(numProps, picks) > numProps
            ELSE BudgetUsed(numProps, picks) = numProps


\* R has the heuristics that P had, the order heap without the variables
\* assigned in R
HeuristicsRestored(P, R) ==
    /\ R.activity = P.activity
    /\ R.var_inc = P.var_inc
    /\ R.polarity = P.polarity
    /\ R.order_heap = FilterHeap(P.order_heap, R.S.assigns)

\* C25: on every exit of search, returning true or false, the activities,
\* var_inc, the saved polarities and the order heap (minus the variables
\* assigned meanwhile) are what they were at entry.
C25_SearchRestoresHeuristics ==
    CanSearch(MaxProbeCalls) =>
        \A numProps \in ProbeBudgets, picks \in ValidPicks(ProbePicks) :
            HeuristicsRestored(ProbeState, search(ProbeState, numProps, picks))


\* The literals above level 0 after the decision lit and the propagation
\* that gave P1
SetAbove(P1) == { P1.S.trail[i] : i \in (P1.lim[1] + 1)..Len(P1.S.trail) }

BinReach(Q, lit) == SetAbove(probePropagateBin(Decide(Q, lit), Len(Q.S.trail) + 1))

Forced(Q, lit) == SetAbove(Probe(Q, lit))

\* Every total assignment that satisfies the level-0 units and all clauses
\* of S, irredundant and learnt, satisfies (not-l or m)
ImpliedBin(S, l, m) ==
    \A a \in Assignments :
        (/\ \A i \in 1..Len(S.trail) : LitTrue(a, S.trail[i])
         /\ SatisfiesClauses(S, a, FALSE)
         /\ SatisfiesClauses(S, a, TRUE)) => (LitTrue(a, Neg(l)) \/ LitTrue(a, m))

\* addBinClauses(lit) turns Q into R
HyperBinsImplied(Q, R, lit) ==
    /\ \A i \in (Len(Q.fs.added) + 1)..Len(R.fs.added) :
          /\ R.fs.added[i][1] \in BinReach(Q, lit)
          /\ R.fs.added[i][2] \in Forced(Q, R.fs.added[i][1])
          /\ ImpliedBin(Q.S, R.fs.added[i][1], R.fs.added[i][2])
    /\ R.S.ok
    /\ R.fs.asserted
    /\ R.fs.propagatedBin = {}

CanAddBinClauses(Q) == Q.addExtraBins /\ Q.fs.hyperbinProps < Q.fs.maxHyperBinProps

\* The solver when tryBoth reaches line 510, A being the first probe
AtFirstAddBin(A) == cancelUntil(FirstLoop(A, Len(A.S.trail)))

\* The solver when tryBoth reaches line 581, B being the second probe
AtSecondAddBin(B, v) ==
    cancelUntil(SecondLoop(B, MkLit(v, FALSE), MkLit(v, TRUE), Len(B.S.trail)))

HyperBinsOfCall(Q, lit) ==
    CanAddBinClauses(Q) => HyperBinsImplied(Q, addBinClauses(Q, lit), lit)

HyperBinsOfSecond(B, v) ==
    (~B.S.confl /\ SecondLoop(B, MkLit(v, FALSE), MkLit(v, TRUE), Len(B.S.trail)).ret) =>
        HyperBinsOfCall(AtSecondAddBin(B, v), MkLit(v, TRUE))

\* C26: every binary that addBinClauses adds during a probe is (not-l or
\* M) with l reached from the probe literal by binary propagation and M
\* forced by unit propagation of l alone; it is implied by the clauses,
\* ok stays true, and at the end propagatedBin is all zero.
C26_HyperBinariesImplied ==
    CanSearch(MaxProbeCalls) =>
        \A numProps \in ProbeBudgets, picks \in ValidPicks(ProbePicks) :
            \A P \in LoopEntries(numProps, picks) :
                \A v \in { v \in DOMAIN assigns : assigns[v] = "U" } :
                    \A A \in {FirstProbeOf(P, v)} :
                        ~A.S.confl =>
                            /\ HyperBinsOfCall(AtFirstAddBin(A), MkLit(v, FALSE))
                            /\ HyperBinsOfSecond(SecondProbeOf(A, v), v)

AddsHyperBin(Q, lit) ==
    /\ CanAddBinClauses(Q)
    /\ \E R \in {addBinClauses(Q, lit)} :
          /\ Len(R.fs.added) > Len(Q.fs.added)
          /\ HyperBinsImplied(Q, R, lit)

C26_Witness ==
    /\ CanSearch(MaxProbeCalls)
    /\ \E numProps \in ProbeBudgets, picks \in ValidPicks(ProbePicks) :
        \E P \in LoopEntries(numProps, picks) :
            \E v \in { v \in DOMAIN assigns : assigns[v] = "U" } :
                \E A \in {FirstProbeOf(P, v)} :
                    /\ ~A.S.confl
                    /\ AddsHyperBin(AtFirstAddBin(A), MkLit(v, FALSE))


\* The number of irredundant binaries (l1 or l2)
BinCount(S, l1, l2) ==
    Cardinality({ k \in 1..Len(S.watches[l1]) : S.watches[l1][k] = WBin(l2, FALSE) })

\* The literals that one-level binary propagation of lit sets
OneHop(P, lit) ==
    SetAbove(probePropagateBinOneLevel(Decide(P, lit), Len(P.S.trail) + 1)) \ {lit}

\* n is one hop from lit and is reached by binary propagation from
\* another literal that is one hop from lit
ReachedByOtherHop(P, lit, n) ==
    /\ n \in OneHop(P, lit)
    /\ \E m \in OneHop(P, lit) \ {n} : n \in BinReach(P, m)

\* removeUselessBinaries(lit) turns P into R
OnlyRedundantRemoved(P, R, lit) ==
    R.ret =>
        \A n \in DOMAIN P.S.watches :
            BinCount(R.S, Neg(lit), n) < BinCount(P.S, Neg(lit), n)
                => ReachedByOtherHop(P, lit, n)

\* C24: removeUselessBinaries(L) removes a binary (not-L or N) only if N
\* is set by one-level binary propagation of L and is reached by binary
\* propagation from another literal M one hop from L; every other binary
\* stays attached.
C24_OnlyRedundantBinariesRemoved ==
    CanRemoveUseless =>
        \A lit \in { l \in DOMAIN watches : assigns[LitVar(l)] = "U" } :
            OnlyRedundantRemoved(ProbeState, removeUselessBinaries(ProbeState, lit), lit)


\* The number of times the element at position k was freed
TimesFreed(R, k) == Cardinality({ i \in 1..Len(R.fs.freed) : R.fs.freed[i] = k })

\* readdRemovedLearnts turns P into R
EachFreedOnce(P, R) ==
    /\ ~R.fs.pastEnd
    /\ \A k \in 1..Len(P.removedLearnts) : TimesFreed(R, k) = 1
    /\ \A i \in 1..Len(R.fs.freed) : R.fs.freed[i] \in 1..Len(P.removedLearnts)
    /\ R.ret = R.S.ok

\* C29: readdRemovedLearnts visits each entry of removedLearnts once and
\* stops at the end of the array, also when adding a clause again makes ok
\* false: every stored clause is freed exactly once, nothing past the end
\* is read or freed, and the function returns ok.
C29_ReaddStopsAtEnd ==
    (CanSearch(MaxReaddCalls) /\ probing.readdOldLearnts) =>
        EachFreedOnce(ProbeState, readdRemovedLearnts(ProbeState))


\* C27: whenever tryBoth or search returns, with true or with false, the
\* solver is at decision level 0, also when varReplacer->replace fails in
\* the middle of the second probe.
C27_ReturnsAtLevelZero ==
    /\ lastCall = "search" => decisionLevel(probing) = 0
    /\ CanSearch(MaxEquivCalls) =>
          \A numProps \in EquivBudgets, picks \in EquivPicks :
              \A P \in LoopEntries(numProps, picks) :
                  \A v \in { v \in DOMAIN assigns : assigns[v] = "U" } :
                      decisionLevel(TryBothOf(P, v)) = 0


\* What the next call finds after a call has returned R
NextCallState(R) == [R EXCEPT !.fs = NoCallState, !.ret = TRUE]

\* search turns P into R: it probed a variable if an unassigned one was at
\* or after its start index; and if it stopped on budget at k, k is
\* unassigned, every variable from the start index to k that is still
\* unassigned was probed, and the next call, whatever its budget, starts
\* at k
NoVariableSkipped(P, R) ==
    /\ (\E j \in R.fs.fromVar..(NumVars(P) - 1) : P.S.assigns[j] = "U") => R.fs.probed # << >>
    /\ ~R.fv.finishedLastTimeVar =>
          /\ R.S.assigns[R.fv.lastTimeWentUntilVar] = "U"
          /\ \A j \in R.fs.fromVar..(R.fv.lastTimeWentUntilVar - 1) :
                R.S.assigns[j] = "U" => j \in SeqToSet(R.fs.probed)
          /\ \A numProps \in ScheduleBudgets, picks \in ValidPicks(SchedulePicks) :
                \E N \in {search(NextCallState(R), numProps, picks)} :
                    /\ N.fs.fromVar = R.fv.lastTimeWentUntilVar
                    /\ N.fs.probed # << >>
                    /\ N.fs.probed[1] = R.fv.lastTimeWentUntilVar

\* v is an unassigned variable of a solver that is ok
Eligible(v) == ok /\ v < nVars /\ assigns[v] = "U"

\* The last call of search probed v
ProbedLast(v) == v \in SeqToSet(searcher.probed)

\* Calls enough are left to go once around the variables
CallsLeft == searcher.numCalls + MaxScheduleVars <= MaxScheduleCalls

\* The solver goes on calling search: every call the bound allows is made
SearchCalledOn == <>(searcher.numCalls = MaxScheduleCalls)

\* C28: with a positive budget on a satisfiable formula, a call of search
\* that stops on budget at variable k makes the next call start at k, so
\* that no unassigned variable between is skipped; every call probes a
\* variable if an unassigned one is at or after its start index; and
\* every unassigned variable is eventually probed, when the solver goes
\* on calling search.
C28_EveryVariableProbed ==
    /\ [](CanSearch(MaxScheduleCalls) =>
            \A numProps \in ScheduleBudgets, picks \in ValidPicks(SchedulePicks) :
                NoVariableSkipped(ProbeState, search(ProbeState, numProps, picks)))
    /\ SearchCalledOn =>
          \A v \in 0..(MaxScheduleVars - 1) :
              (CallsLeft /\ Eligible(v) /\ ~ProbedLast(v)) ~> (ProbedLast(v) \/ ~Eligible(v))

\* The last call stopped on budget at a variable that the next call, with
\* the smallest budget, probes first and stops after
C28_Witness ==
    /\ CanSearch(MaxScheduleCalls)
    /\ ~searcher.finishedLastTimeVar
    /\ searcher.lastTimeWentUntilVar > 0
    /\ \E R \in {search(ProbeState, 1, << >>)} :
          /\ R.fs.probed = <<searcher.lastTimeWentUntilVar>>
          /\ NoVariableSkipped(ProbeState, R)


============================================================================
